---------------------------- MODULE Spec2Model ----------------------------
(***************************************************************************)
(* Control-plane support logic of thunderdomeai/ui:                        *)
(*   - the credential store (src/main.py, lines 265-667),                  *)
(*   - the tenant userrequirements resolver (src/main.py, lines 1586-1803),*)
(*   - the tenant stack template sanitizer (src/tenant_stack_template.py), *)
(*   - the provider bootstrap request (src/main.py, lines 898-973).        *)
(*                                                                         *)
(* A Python str is modelled as a sequence of tokens (a token is an atomic  *)
(* piece of text, a single character where the code looks inside the      *)
(* text); a JSON value is a tagged record, so that None, str, bool, dict   *)
(* and list stay distinguishable the way isinstance distinguishes them.    *)
(* A dict is the ordered sequence of its <<key, value>> items.             *)
(***************************************************************************)
EXTENDS Integers, Sequences, FiniteSets, TLC

VARIABLES
    files,        \* type_name -> persisted content of <type_name>-store.json
    client,       \* the {type_name} path parameter of the requests followed
    resp,         \* the last credential-store request and its HTTP answer
    request_ur,   \* finalize request: the tenant's userrequirements tree
    request_meta, \* finalize request: tenant_metadata
    canonical_file, \* the canonical userrequirements read from disk
    finalized,    \* answer of finalize(tenant_ur, tenant_meta, canonical_ur)
    refinalized,  \* answer of finalize on the tree of `finalized`
    ex_env,       \* an agent environment handed to _set_extra_env
    ex_key,       \* the key written
    ex_value,     \* the value written
    ex_written,   \* the environment after _set_extra_env
    ex_read,      \* what a following _get_extra_env returned for the key
    raw_payload,  \* the raw template tree handed to the sanitizer
    first_run,    \* sanitize_tenant_stack_template(raw_payload), one run
    second_run,   \* the same call on the same tree, another run
    inflight,     \* the handler suspended at an await between load and write
    revived,      \* the last resumed handler wrote back an entry deleted meanwhile
    template_file,   \* what the resolved template path holds on disk
    _template_cache, \* the module global of tenant_stack_template.py
    template_resp,   \* outcome of the last get_tenant_stack_template call
    boot_body,    \* bootstrap request: the JSON body of POST /api/bootstrap/provider
    boot_source,  \* the selected entry of the source store, as loaded
    boot_posted,  \* the build_body posted to Cloud Build by the last request
    boot_answer,  \* the HTTP answer of the last bootstrap request
    stored_text,  \* content of a store file written by an earlier format or by hand
    loaded,       \* _load_store on that file
    reloaded      \* _normalize_store_payload on the store just loaded

storeVars == <<files, client, resp>>
resolverVars == <<request_ur, request_meta, canonical_file, finalized, refinalized>>
envVars == <<ex_env, ex_key, ex_value, ex_written, ex_read>>
sanitizerVars == <<raw_payload, first_run, second_run>>
raceVars == <<inflight, revived>>
cacheVars == <<template_file, _template_cache, template_resp>>
bootVars == <<boot_body, boot_source, boot_posted, boot_answer>>
loadVars == <<stored_text, loaded, reloaded>>
vars == <<storeVars, resolverVars, envVars, sanitizerVars, raceVars, cacheVars, bootVars, loadVars>>

(***************************************************************************)
(* Credential store                                                        *)
(***************************************************************************)
MaxIds == 2

VALID_CREDENTIAL_TYPES == {"source", "target"}
VALID_ENTRY_STATUSES == {"unverified", "verified", "primed"}

EntryIds == 1..MaxIds
NoId == 0                       \* Python None as a selectedId / request id
NoFile == [missing |-> TRUE]    \* the store file does not exist yet

_empty_store == [selectedId |-> NoId, entries |-> <<>>]

_normalize_entry(entry) ==
    [entry EXCEPT !.status = IF @ \in VALID_ENTRY_STATUSES THEN @ ELSE "unverified"]

_entry_activation_allowed_AnyClass(type_name, entry) ==
    entry.status \in {"verified", "primed"}

_entry_activation_allowed(type_name, entry) ==
    \/ entry.status = "primed"
    \/ type_name = "source" /\ entry.status = "verified"

_normalize_store_payload(raw, type_name) ==
    LET entries == [i \in DOMAIN raw.entries |-> _normalize_entry(raw.entries[i])]
        sel == raw.selectedId
    IN  [selectedId |->
            IF sel # NoId
               /\ (sel \notin DOMAIN entries
                   \/ ~_entry_activation_allowed(type_name, entries[sel]))
            THEN NoId ELSE sel,
         entries |-> entries]

_load_store(type_name) ==
    IF files[type_name] = NoFile
    THEN _empty_store
    ELSE _normalize_store_payload(files[type_name], type_name)

_write_store(type_name, store) ==
    files' = [files EXCEPT ![type_name] = store]

\* dict item assignment d[k] = v and del d[k] on the entries mapping
PutEntry(entries, id, entry) ==
    [i \in DOMAIN entries \cup {id} |-> IF i = id THEN entry ELSE entries[i]]

DelEntry(entries, id) ==
    [i \in DOMAIN entries \ {id} |-> entries[i]]

Answer(op, type_name, id, code) ==
    resp' = [op |-> op, type_name |-> type_name, id |-> id, status_code |-> code]

\* POST /api/credential-store/{type_name}/entries
\* given = NoId: the body carries no usable id and uuid4() draws a fresh one.
credential_store_add_selection(store, entry_id) ==
    IF store.selectedId \in DOMAIN store.entries \cup {entry_id}
    THEN store.selectedId ELSE NoId

credential_store_add(type_name, given, credential_is_object) ==
    LET store == _load_store(type_name) IN
    IF ~credential_is_object
    THEN /\ Answer("add", type_name, given, 400)
         /\ UNCHANGED files
    ELSE \E entry_id \in EntryIds :
            /\ IF given # NoId THEN entry_id = given
                               ELSE entry_id \notin DOMAIN store.entries
            /\ LET entries == PutEntry(store.entries, entry_id,
                                  [status |-> "unverified", credential |-> "object"])
                   written == [selectedId |->
                                  credential_store_add_selection(store, entry_id),
                               entries |-> entries]
               IN  /\ _write_store(type_name, written)
                   /\ Answer("add", type_name, entry_id, 201)

\* store["selectedId"] = selected_id
select_written_KeepOnNull(store, selected_id) ==
    IF selected_id = NoId THEN store ELSE [store EXCEPT !.selectedId = selected_id]

select_written(store, selected_id) == [store EXCEPT !.selectedId = selected_id]

\* PUT /api/credential-store/{type_name}/selection
credential_store_select(type_name, selected_id) ==
    LET store == _load_store(type_name) IN
    IF selected_id # NoId /\ selected_id \notin DOMAIN store.entries
    THEN /\ Answer("select", type_name, selected_id, 404)
         /\ UNCHANGED files
    ELSE IF selected_id # NoId
            /\ ~_entry_activation_allowed(type_name, store.entries[selected_id])
    THEN /\ Answer("select", type_name, selected_id, 400)
         /\ UNCHANGED files
    ELSE /\ _write_store(type_name, select_written(store, selected_id))
         /\ Answer("select", type_name, selected_id, 204)

\* DELETE /api/credential-store/{type_name}/entries/{entry_id}
credential_store_delete(type_name, entry_id) ==
    LET store == _load_store(type_name) IN
    IF entry_id \notin DOMAIN store.entries
    THEN /\ Answer("delete", type_name, entry_id, 404)
         /\ UNCHANGED files
    ELSE /\ _write_store(type_name,
                [selectedId |-> IF store.selectedId = entry_id
                                THEN NoId ELSE store.selectedId,
                 entries |-> DelEntry(store.entries, entry_id)])
         /\ Answer("delete", type_name, entry_id, 200)

\* the status verify stores after a successful probe
verify_status_Demoting(status) == "verified"

verify_status(status) == IF status = "primed" THEN "primed" ELSE "verified"

\* _prime_status_for_credential raises: the handler is left before the entry
\* is updated and before _write_store
verify_probe_raises_AfterWrite(type_name, store, entry_id) ==
    _write_store(type_name,
        [store EXCEPT !.entries[entry_id].status = verify_status(@)])

verify_probe_raises(type_name, store, entry_id) == UNCHANGED files

\* POST /api/credential-store/{type_name}/entries/{entry_id}/verify
\* probe_ok: the prime-status probe answered with a success payload.
credential_store_verify(type_name, entry_id, probe_ok) ==
    LET store == _load_store(type_name) IN
    IF entry_id \notin DOMAIN store.entries
    THEN /\ Answer("verify", type_name, entry_id, 404)
         /\ UNCHANGED files
    ELSE IF store.entries[entry_id].credential # "object"
    THEN /\ Answer("verify", type_name, entry_id, 400)
         /\ UNCHANGED files
    ELSE IF ~probe_ok
    THEN /\ Answer("verify", type_name, entry_id, 500)
         /\ verify_probe_raises(type_name, store, entry_id)
    ELSE LET entry == [store.entries[entry_id] EXCEPT !.status = verify_status(@)]
         IN  /\ _write_store(type_name,
                    [store EXCEPT !.entries = PutEntry(@, entry_id, entry)])
             /\ Answer("verify", type_name, entry_id, 200)

\* the statuses from which mark-primed is accepted
mark_primed_allowed == {"verified", "primed"}

\* POST /api/credential-store/{type_name}/entries/{entry_id}/mark-primed
credential_store_mark_primed(type_name, entry_id) ==
    LET store == _load_store(type_name) IN
    IF entry_id \notin DOMAIN store.entries
    THEN /\ Answer("markPrimed", type_name, entry_id, 404)
         /\ UNCHANGED files
    ELSE IF store.entries[entry_id].status \notin mark_primed_allowed
    THEN /\ Answer("markPrimed", type_name, entry_id, 400)
         /\ UNCHANGED files
    ELSE LET entry == [store.entries[entry_id] EXCEPT !.status = "primed"]
         IN  /\ _write_store(type_name,
                    [store EXCEPT !.entries = PutEntry(@, entry_id, entry)])
             /\ Answer("markPrimed", type_name, entry_id, 200)

\* The two stores are separate files and no handler touches the file of the
\* other type: a behaviour follows the requests sent to one {type_name}.
Add == \E given \in EntryIds \cup {NoId}, ok \in BOOLEAN :
          credential_store_add(client, given, ok) /\ UNCHANGED <<client, resolverVars, envVars, sanitizerVars, raceVars, cacheVars, bootVars, loadVars>>
Select == \E id \in EntryIds \cup {NoId} :
          credential_store_select(client, id) /\ UNCHANGED <<client, resolverVars, envVars, sanitizerVars, raceVars, cacheVars, bootVars, loadVars>>
Delete == \E id \in EntryIds :
          credential_store_delete(client, id) /\ UNCHANGED <<client, resolverVars, envVars, sanitizerVars, raceVars, cacheVars, bootVars, loadVars>>
Verify == \E id \in EntryIds, probe_ok \in BOOLEAN :
          credential_store_verify(client, id, probe_ok) /\ UNCHANGED <<client, resolverVars, envVars, sanitizerVars, raceVars, cacheVars, bootVars, loadVars>>
MarkPrimed == \E id \in EntryIds :
          credential_store_mark_primed(client, id) /\ UNCHANGED <<client, resolverVars, envVars, sanitizerVars, raceVars, cacheVars, bootVars, loadVars>>

\* a store file kept from an earlier deployment: its entry holds a credential
\* that is not an object (what _normalize_entry gives for such an entry)
LegacyStore ==
    [selectedId |-> NoId,
     entries |-> [i \in {1} |-> [status |-> "unverified", credential |-> "null"]]]

StoreInit ==
    /\ client \in VALID_CREDENTIAL_TYPES
    /\ files \in {[t \in VALID_CREDENTIAL_TYPES |-> IF t = client THEN f ELSE NoFile] :
                     f \in {NoFile, LegacyStore}}
    /\ resp = [op |-> "none", type_name |-> client, id |-> NoId, status_code |-> 0]

(***************************************************************************)
(* Credential store under interleaved requests.  The handlers are          *)
(* coroutines of one event loop: another request runs only while a handler *)
(* awaits.  verify awaits the request body and the probe, and mark-primed  *)
(* awaits the request body, between _load_store and _write_store; add,     *)
(* select and delete have no await between the two.                        *)
(***************************************************************************)
NoRequest == [op |-> "none"]

\* the store a resumed handler writes: its own `store` object, loaded before
\* the await
resumed_store_Reloaded(type_name, snapshot) == _load_store(type_name)

resumed_store(type_name, snapshot) == snapshot

\* credential_store_verify up to `await request.json()`
VerifyLoad ==
    \E id \in EntryIds :
        LET store == _load_store(client) IN
        /\ inflight = NoRequest
        /\ IF id \notin DOMAIN store.entries
           THEN Answer("verify", client, id, 404) /\ UNCHANGED inflight
           ELSE IF store.entries[id].credential # "object"
           THEN Answer("verify", client, id, 400) /\ UNCHANGED inflight
           ELSE /\ inflight' = [op |-> "verify", id |-> id, store |-> store]
                /\ UNCHANGED resp
        /\ UNCHANGED <<files, client, revived>>
        /\ UNCHANGED <<resolverVars, envVars, sanitizerVars, cacheVars, bootVars, loadVars>>

\* credential_store_verify from the answer of the probe on
VerifyWrite ==
    \E probe_ok \in BOOLEAN :
        /\ inflight # NoRequest
        /\ inflight.op = "verify"
        /\ LET id == inflight.id
               store == resumed_store(client, inflight.store)
               entry == [inflight.store.entries[id] EXCEPT
                            !.status = verify_status(@)]
           IN  IF ~probe_ok
               THEN /\ Answer("verify", client, id, 500)
                    /\ UNCHANGED <<files, revived>>
               ELSE /\ _write_store(client,
                           [store EXCEPT !.entries = PutEntry(@, id, entry)])
                    /\ Answer("verify", client, id, 200)
                    /\ revived' = (id \notin DOMAIN _load_store(client).entries)
        /\ inflight' = NoRequest
        /\ UNCHANGED client
        /\ UNCHANGED <<resolverVars, envVars, sanitizerVars, cacheVars, bootVars, loadVars>>

\* credential_store_mark_primed up to `await request.json()`
MarkPrimedLoad ==
    \E id \in EntryIds :
        LET store == _load_store(client) IN
        /\ inflight = NoRequest
        /\ IF id \notin DOMAIN store.entries
           THEN Answer("markPrimed", client, id, 404) /\ UNCHANGED inflight
           ELSE IF store.entries[id].status \notin mark_primed_allowed
           THEN Answer("markPrimed", client, id, 400) /\ UNCHANGED inflight
           ELSE /\ inflight' = [op |-> "markPrimed", id |-> id, store |-> store]
                /\ UNCHANGED resp
        /\ UNCHANGED <<files, client, revived>>
        /\ UNCHANGED <<resolverVars, envVars, sanitizerVars, cacheVars, bootVars, loadVars>>

\* credential_store_mark_primed from the request body on
MarkPrimedWrite ==
    /\ inflight # NoRequest
    /\ inflight.op = "markPrimed"
    /\ LET id == inflight.id
           store == resumed_store(client, inflight.store)
           entry == [inflight.store.entries[id] EXCEPT !.status = "primed"]
       IN  /\ _write_store(client,
                  [store EXCEPT !.entries = PutEntry(@, id, entry)])
           /\ Answer("markPrimed", client, id, 200)
           /\ revived' = (id \notin DOMAIN _load_store(client).entries)
    /\ inflight' = NoRequest
    /\ UNCHANGED client
    /\ UNCHANGED <<resolverVars, envVars, sanitizerVars, cacheVars, bootVars, loadVars>>

\* a mark-primed of the entry a suspended verify is about, served while the
\* verify awaits the probe (its own await of the request body returns before
\* the probe answers)
MarkPrimedMeanwhile ==
    /\ inflight # NoRequest
    /\ inflight.op = "verify"
    /\ credential_store_mark_primed(client, inflight.id)
    /\ UNCHANGED <<client, inflight, revived>>
    /\ UNCHANGED <<resolverVars, envVars, sanitizerVars, cacheVars, bootVars, loadVars>>

(***************************************************************************)
(* JSON values and Python str operations                                   *)
(***************************************************************************)
PyNone == [t |-> "null"]
Str(s) == [t |-> "str", s |-> s]
Bool(b) == [t |-> "bool", b |-> b]
Dict(kv) == [t |-> "dict", kv |-> kv]
List(items) == [t |-> "list", items |-> items]

IsStr(v) == v.t = "str"
IsDict(v) == v.t = "dict"
IsList(v) == v.t = "list"

\* bool(v): what `if v`, `not v` and `a or b` test
Truthy(v) ==
    CASE v.t = "null" -> FALSE
      [] v.t = "str" -> v.s # <<>>
      [] v.t = "bool" -> v.b
      [] v.t = "dict" -> v.kv # <<>>
      [] v.t = "list" -> v.items # <<>>

PyOr(a, b) == IF Truthy(a) THEN a ELSE b

\* key in d, d.get(key), d[key] = value (an existing key keeps its position)
Has(d, key) == \E i \in 1..Len(d.kv) : d.kv[i][1] = key

Get(d, key) ==
    IF Has(d, key)
    THEN d.kv[CHOOSE i \in 1..Len(d.kv) : d.kv[i][1] = key][2]
    ELSE PyNone

Put(d, key, value) ==
    IF Has(d, key)
    THEN Dict([i \in 1..Len(d.kv) |->
                  IF d.kv[i][1] = key THEN <<key, value>> ELSE d.kv[i]])
    ELSE Dict(Append(d.kv, <<key, value>>))

\* str.startswith, `sub in s`
StartsWith(s, prefix) ==
    Len(s) >= Len(prefix) /\ SubSeq(s, 1, Len(prefix)) = prefix

Contains(s, sub) ==
    \E i \in 1..(Len(s) - Len(sub) + 1) : SubSeq(s, i, i + Len(sub) - 1) = sub

\* str.strip(): leading and trailing whitespace removed
RECURSIVE LStrip(_)
LStrip(s) == IF s # <<>> /\ Head(s) = " " THEN LStrip(Tail(s)) ELSE s

RECURSIVE RStrip(_)
RStrip(s) ==
    IF s # <<>> /\ s[Len(s)] = " " THEN RStrip(SubSeq(s, 1, Len(s) - 1)) ELSE s

Strip(s) == RStrip(LStrip(s))

\* letters and digits, one character each
LowerLetters == <<"a", "b", "c", "d", "e", "f", "g", "h", "i", "j", "k", "l", "m", "n", "o", "p", "q", "r", "s", "t", "u", "v", "w", "x", "y", "z">>
UpperLetters == <<"A", "B", "C", "D", "E", "F", "G", "H", "I", "J", "K", "L", "M", "N", "O", "P", "Q", "R", "S", "T", "U", "V", "W", "X", "Y", "Z">>
DigitChars == {"0", "1", "2", "3", "4", "5", "6", "7", "8", "9"}

IsLetter(c) == \E i \in 1..26 : c = LowerLetters[i] \/ c = UpperLetters[i]
IsAlnum(c) == IsLetter(c) \/ c \in DigitChars

UpperChar(c) ==
    IF \E i \in 1..26 : LowerLetters[i] = c
    THEN UpperLetters[CHOOSE i \in 1..26 : LowerLetters[i] = c] ELSE c

LowerChar(c) ==
    IF \E i \in 1..26 : UpperLetters[i] = c
    THEN LowerLetters[CHOOSE i \in 1..26 : UpperLetters[i] = c] ELSE c

\* str.lower() of a text held character by character
Lower(s) == [i \in 1..Len(s) |-> LowerChar(s[i])]

\* str.replace(old, new): the occurrences of old, leftmost first and not
\* overlapping
RECURSIVE ReplaceFrom(_, _, _, _)
ReplaceFrom(s, i, old, new) ==
    IF i > Len(s) THEN <<>>
    ELSE IF i + Len(old) - 1 <= Len(s) /\ SubSeq(s, i, i + Len(old) - 1) = old
    THEN new \o ReplaceFrom(s, i + Len(old), old, new)
    ELSE <<s[i]>> \o ReplaceFrom(s, i + 1, old, new)

Replace(s, old, new) == ReplaceFrom(s, 1, old, new)

\* str.upper(), token by token; a token without lower-case letters is its own
\* upper case
UpperToken(tok) ==
    CASE tok = "placeholder" -> "PLACEHOLDER"
      [] tok = "Placeholder" -> "PLACEHOLDER"
      [] tok = "replace_me_" -> "REPLACE_ME_"
      [] tok = "db_" -> "DB_"
      [] tok = "postgres_" -> "POSTGRES_"
      [] tok = "host" -> "HOST"
      [] tok = "username" -> "USERNAME"
      [] tok = "password" -> "PASSWORD"
      [] tok = "database_url" -> "DATABASE_URL"
      [] tok = "github_token" -> "GITHUB_TOKEN"
      [] tok = "default_max_tokens" -> "DEFAULT_MAX_TOKENS"
      [] tok = "database_instance" -> "DATABASE_INSTANCE"
      [] tok = "database_name" -> "DATABASE_NAME"
      [] tok = "connectDatabase" -> "CONNECTDATABASE"
      [] tok = "extra_env" -> "EXTRA_ENV"
      [] tok = "environment" -> "ENVIRONMENT"
      [] tok = "agents" -> "AGENTS"
      [] tok = "name" -> "NAME"
      [] tok = "key" -> "KEY"
      [] tok = "value" -> "VALUE"
      [] tok = "core" -> "CORE"
      [] tok = "mine" -> "MINE"
      [] tok = "proj:region:inst" -> "PROJ:REGION:INST"
      [] tok = "db1" -> "DB1"
      [] tok = "u" -> "U"
      [] tok = "p" -> "P"
      [] tok = "cu" -> "CU"
      [] tok = "cp" -> "CP"
      [] tok = "postgresql://" -> "POSTGRESQL://"
      [] tok = "/cloudsql/" -> "/CLOUDSQL/"
      [] tok = "?host=" -> "?HOST="
      [] OTHER -> UpperChar(tok)

Upper(s) == [i \in 1..Len(s) |-> UpperToken(s[i])]

\* sep.join(parts)
RECURSIVE JoinFrom(_, _, _)
JoinFrom(parts, i, sep) ==
    IF i > Len(parts) THEN <<>>
    ELSE IF i = Len(parts) THEN parts[i]
    ELSE parts[i] \o sep \o JoinFrom(parts, i + 1, sep)

Join(parts, sep) == JoinFrom(parts, 1, sep)

\* str(i) of a list index
Digits == <<"0", "1", "2", "3", "4", "5", "6", "7", "8", "9">>
IndexStr(i) == <<Digits[i + 1]>>

\* Sequencing of statements: Cont applied to the evaluated value (the value
\* is computed once, as an assignment to a local variable computes it)
Then(value, Cont(_)) == CHOOSE r \in {Cont(x) : x \in {value}} : TRUE

\* f"{v}" of a value
Format(v) ==
    CASE v.t = "null" -> <<"None">>
      [] v.t = "str" -> v.s
      [] v.t = "bool" -> IF v.b THEN <<"True">> ELSE <<"False">>
      [] OTHER -> <<"<object>">>

(***************************************************************************)
(* Tenant userrequirements resolver                                        *)
(***************************************************************************)
_placeholder_value(value) ==
    \/ value = PyNone
    \/ /\ IsStr(value)
       /\ LET stripped == Strip(value.s) IN
          \/ stripped = <<>>
          \/ Upper(stripped) = <<"PLACEHOLDER">>
          \/ StartsWith(stripped, <<"REPLACE_ME_">>)

\* entry.get("key") or entry.get("name")
EntryKey(entry) == PyOr(Get(entry, <<"key">>), Get(entry, <<"name">>))

_get_extra_env(env, key) ==
    LET extra == Get(env, <<"extra_env">>) IN
    IF IsDict(extra) THEN Get(extra, key)
    ELSE IF IsList(extra)
    THEN LET hits == {i \in 1..Len(extra.items) :
                         /\ IsDict(extra.items[i])
                         /\ EntryKey(extra.items[i]) = Str(key)}
         IN  IF hits = {} THEN PyNone
             ELSE Get(extra.items[CHOOSE i \in hits : \A j \in hits : i <= j],
                      <<"value">>)
    ELSE PyNone

\* the loop of _set_extra_env over a list-shaped extra_env: a matching record
\* is rewritten, another record is kept, an entry that is no dict is left out
SetExtraEntries(items, key, value) ==
    LET kept == SelectSeq(items, IsDict) IN
    [i \in 1..Len(kept) |->
        IF EntryKey(kept[i]) = Str(key)
        THEN Put(Put(kept[i], <<"key">>, Str(key)), <<"value">>, value)
        ELSE kept[i]]

_set_extra_env_AlwaysAppend(env, key, value) ==
    LET extra == Get(env, <<"extra_env">>)
        record == Dict(<< <<<<"key">>, Str(key)>>, <<<<"value">>, value>> >>)
    IN  IF IsDict(extra)
        THEN Put(env, <<"extra_env">>, Put(extra, key, value))
        ELSE IF IsList(extra)
        THEN Put(env, <<"extra_env">>, List(Append(extra.items, record)))
        ELSE Put(env, <<"extra_env">>, List(<<record>>))

_set_extra_env(env, key, value) ==
    LET extra == Get(env, <<"extra_env">>)
        record == Dict(<< <<<<"key">>, Str(key)>>, <<<<"value">>, value>> >>)
    IN  IF IsDict(extra)
        THEN Put(env, <<"extra_env">>, Put(extra, key, value))
        ELSE IF IsList(extra)
        THEN LET updated == \E i \in 1..Len(extra.items) :
                                /\ IsDict(extra.items[i])
                                /\ EntryKey(extra.items[i]) = Str(key)
                 new_entries == SetExtraEntries(extra.items, key, value)
             IN  Put(env, <<"extra_env">>,
                     List(IF updated THEN new_entries
                                     ELSE Append(new_entries, record)))
        ELSE Put(env, <<"extra_env">>, List(<<record>>))

_maybe_set_env_or_extra_TopLevelOnly(env, key, value) ==
    LET current == Get(env, key) IN
    IF current # PyNone /\ _placeholder_value(current)
    THEN Put(env, key, value)
    ELSE env

_maybe_set_env_or_extra(env, key, value) ==
    LET current == Get(env, key) IN
    IF current # PyNone /\ _placeholder_value(current)
    THEN Put(env, key, value)
    ELSE LET extra_val == _get_extra_env(env, key) IN
         IF extra_val = PyNone \/ _placeholder_value(extra_val)
         THEN _set_extra_env(env, key, value)
         ELSE env

_apply_postgres_env(env, connection_name, db_name, db_username, db_password,
                    canonical_port) ==
    LET db_socket == Str(<<"/cloudsql/">> \o Format(connection_name))
        default_port == IF Truthy(canonical_port)
                        THEN Str(Format(canonical_port)) ELSE Str(<<"5432">>)
    IN
    Then(_maybe_set_env_or_extra(env, <<"POSTGRES_", "HOST">>, db_socket), LAMBDA e1 :
    Then(_maybe_set_env_or_extra(e1, <<"POSTGRES_", "DB">>, db_name), LAMBDA e2 :
    Then(IF Truthy(db_username)
         THEN _maybe_set_env_or_extra(e2, <<"POSTGRES_", "USER">>, db_username)
         ELSE e2, LAMBDA e3 :
    Then(IF Truthy(db_password)
         THEN _maybe_set_env_or_extra(e3, <<"POSTGRES_", "PASSWORD">>, db_password)
         ELSE e3, LAMBDA e4 :
    _maybe_set_env_or_extra(e4, <<"POSTGRES_", "PORT">>, default_port)))))

critical_prefixes == {<<"DB_">>, <<"POSTGRES_">>}
critical_keys ==
    {<<"DATABASE_URL">>, <<"DEFAULT_MAX_TOKENS">>, <<"REPO_URL">>, <<"GITHUB_TOKEN">>}

IsCriticalKey(upper_key) ==
    \/ upper_key \in critical_keys
    \/ \E prefix \in critical_prefixes : StartsWith(upper_key, prefix)

ContainsBadGit(s) ==
    \/ Contains(s, <<"REPLACE_ME_", "GITHUB_TOKEN">>)
    \/ Contains(s, <<"REPLACE_ME_", "REPO_URL">>)

\* the path segment of list index idx (enumerate counts from 0)
index_segment(idx) == <<"[">> \o IndexStr(idx) \o <<"]">>

\* the reported strings, in the order the walk appends them to `out`
RECURSIVE _collect_placeholder_paths(_, _)
RECURSIVE CollectItems(_, _, _)
RECURSIVE CollectList(_, _, _)

_collect_placeholder_paths(node, path) ==
    IF IsDict(node)
    THEN IF Has(node, <<"key">>) /\ Has(node, <<"value">>) /\ Len(node.kv) <= 3
         THEN LET env_key == EntryKey(node)
                  env_val == Get(node, <<"value">>)
                  key_path == Join(path \o <<IF Truthy(env_key) THEN Format(env_key)
                                                               ELSE <<"value">> >>,
                                   <<".">>)
                  is_critical == Truthy(env_key) /\ IsCriticalKey(Upper(Format(env_key)))
                  contains_bad_git == IsStr(env_val) /\ ContainsBadGit(env_val.s)
              IN  IF (is_critical /\ _placeholder_value(env_val)) \/ contains_bad_git
                  THEN <<key_path \o <<"=">> \o Format(env_val)>>
                  ELSE <<>>
         ELSE CollectItems(node.kv, 1, path)
    ELSE IF IsList(node) THEN CollectList(node.items, 1, path)
    ELSE IF IsStr(node)
    THEN LET last_key == IF path # <<>> THEN path[Len(path)] ELSE <<>>
             is_critical == IsCriticalKey(Upper(last_key))
         IN  IF (is_critical /\ _placeholder_value(node)) \/ ContainsBadGit(node.s)
             THEN <<Join(path, <<".">>) \o <<"=">> \o node.s>>
             ELSE <<>>
    ELSE <<>>

CollectItems(kv, i, path) ==
    IF i > Len(kv) THEN <<>>
    ELSE _collect_placeholder_paths(kv[i][2], Append(path, kv[i][1]))
         \o CollectItems(kv, i + 1, path)

CollectList(items, i, path) ==
    IF i > Len(items) THEN <<>>
    ELSE _collect_placeholder_paths(items[i], Append(path, index_segment(i - 1)))
         \o CollectList(items, i + 1, path)

\* canonical_by_name.get(name): the environment of the last canonical agent of
\* that name whose environment is a dict
_canonical_agent_env_by_name(canonical, name) ==
    LET agents == PyOr(Get(canonical, <<"agents">>), List(<<>>))
        hits == {i \in 1..Len(agents.items) :
                    /\ IsDict(agents.items[i])
                    /\ Truthy(Get(agents.items[i], <<"name">>))
                    /\ Get(agents.items[i], <<"name">>) = name
                    /\ IsDict(Get(agents.items[i], <<"environment">>))}
    IN  IF hits = {} THEN PyNone
        ELSE Get(agents.items[CHOOSE i \in hits : \A j \in hits : j <= i],
                 <<"environment">>)

\* the body of the loop over agents for one environment: the resolved
\* environment, or the HTTPException(400) raised on missing metadata
ResolveDatabase(env, tenant_meta, canonical_env) ==
    LET db_instance == Get(tenant_meta, <<"database_instance">>)
        db_name == Get(tenant_meta, <<"database_name">>)
        db_username == PyOr(Get(tenant_meta, <<"db_", "username">>),
                            IF Truthy(canonical_env)
                            THEN Get(canonical_env, <<"db_", "username">>)
                            ELSE PyNone)
        db_password == PyOr(Get(tenant_meta, <<"db_", "password">>),
                            IF Truthy(canonical_env)
                            THEN Get(canonical_env, <<"db_", "password">>)
                            ELSE PyNone)
    IN  IF ~Truthy(db_instance) \/ ~Truthy(db_name)
        THEN [raised |-> TRUE, env |-> env]
        ELSE IF ~Truthy(db_username) \/ ~Truthy(db_password)
        THEN [raised |-> TRUE, env |-> env]
        ELSE
        LET db_socket == Str(<<"/cloudsql/">> \o Format(db_instance))
            database_url == Str(<<"postgresql://">> \o Format(db_username) \o <<":">>
                                \o Format(db_password) \o <<"@/">> \o Format(db_name)
                                \o <<"?host=">> \o db_socket.s)
            canonical_port ==
                IF Truthy(canonical_env)
                THEN PyOr(_get_extra_env(canonical_env, <<"POSTGRES_", "PORT">>),
                          Get(canonical_env, <<"POSTGRES_", "PORT">>))
                ELSE PyNone
        IN
        Then(Put(env, <<"database_instance">>, db_instance), LAMBDA e1 :
        Then(Put(e1, <<"database_name">>, db_name), LAMBDA e2 :
        Then(Put(e2, <<"db_", "username">>, db_username), LAMBDA e3 :
        Then(Put(e3, <<"db_", "password">>, db_password), LAMBDA e4 :
        Then(_maybe_set_env_or_extra(e4, <<"DATABASE_URL">>, database_url), LAMBDA e5 :
        Then(_maybe_set_env_or_extra(e5, <<"DB_", "HOST">>, db_socket), LAMBDA e6 :
        Then(_maybe_set_env_or_extra(e6, <<"DB_", "CONNECTION">>, db_socket), LAMBDA e7 :
        Then(_apply_postgres_env(e7, db_instance, db_name, db_username, db_password,
                                 canonical_port), LAMBDA e8 :
        [raised |-> FALSE, env |-> e8]))))))))

ResolveMaxTokens(env, canonical_env) ==
    LET canonical_max_tokens ==
            IF Truthy(canonical_env)
            THEN PyOr(_get_extra_env(canonical_env, <<"DEFAULT_MAX_TOKENS">>),
                      Get(canonical_env, <<"DEFAULT_MAX_TOKENS">>))
            ELSE PyNone
        max_tokens_default == IF Truthy(canonical_max_tokens)
                              THEN Str(Format(canonical_max_tokens))
                              ELSE Str(<<"16384">>)
        current_max_tokens == PyOr(_get_extra_env(env, <<"DEFAULT_MAX_TOKENS">>),
                                   Get(env, <<"DEFAULT_MAX_TOKENS">>))
    IN  IF _placeholder_value(current_max_tokens)
        THEN _set_extra_env(env, <<"DEFAULT_MAX_TOKENS">>, max_tokens_default)
        ELSE env

\* `if env.get("connectDatabase"):`
connect_database_Always(env) == TRUE

connect_database(env) == Truthy(Get(env, <<"connectDatabase">>))

ResolveAgent(agent, tenant_meta, canonical_ur) ==
    IF ~IsDict(agent) THEN [raised |-> FALSE, agent |-> agent]
    ELSE LET env == Get(agent, <<"environment">>) IN
         IF ~IsDict(env) THEN [raised |-> FALSE, agent |-> agent]
         ELSE LET canonical_env ==
                      _canonical_agent_env_by_name(canonical_ur, Get(agent, <<"name">>))
              IN
              Then(IF connect_database(env)
                   THEN ResolveDatabase(env, tenant_meta, canonical_env)
                   ELSE [raised |-> FALSE, env |-> env], LAMBDA db :
              IF db.raised THEN [raised |-> TRUE, agent |-> agent]
              ELSE Then(ResolveMaxTokens(db.env, canonical_env), LAMBDA resolved :
                   [raised |-> FALSE,
                    agent |-> Put(agent, <<"environment">>, resolved)]))

\* the loop `for agent in agents` from index i on, stopping at the first
\* exception
RECURSIVE ResolveAgents(_, _, _, _)
ResolveAgents(agents, i, tenant_meta, canonical_ur) ==
    IF i > Len(agents) THEN [raised |-> FALSE, agents |-> <<>>]
    ELSE Then(ResolveAgent(agents[i], tenant_meta, canonical_ur), LAMBDA first :
         IF first.raised THEN [raised |-> TRUE, agents |-> <<>>]
         ELSE Then(ResolveAgents(agents, i + 1, tenant_meta, canonical_ur), LAMBDA rest :
              IF rest.raised THEN [raised |-> TRUE, agents |-> <<>>]
              ELSE [raised |-> FALSE, agents |-> <<first.agent>> \o rest.agents]))

\* finalized = json.loads(json.dumps(tenant_ur)) builds new objects, and every
\* write of the loop goes to them: the object the caller passed holds after the
\* call what it held before, whatever the call answered
caller_tree_after_Aliased(tenant_ur, answer) ==
    IF answer.status_code = 200 THEN answer.tree ELSE tenant_ur

caller_tree_after(tenant_ur, answer) == tenant_ur

\* the result: the finalized tree (status_code 200), or the HTTPException(400)
\* with the detail it carries
finalize_tenant_userrequirements(tenant_ur, tenant_meta, canonical_ur) ==
    LET agents == Get(tenant_ur, <<"agents">>) IN
    Then(IF IsList(agents)
         THEN ResolveAgents(agents.items, 1, tenant_meta, canonical_ur)
         ELSE [raised |-> FALSE, agents |-> <<>>], LAMBDA resolved :
    IF resolved.raised
    THEN [status_code |-> 400, tree |-> PyNone, placeholders |-> <<>>]
    ELSE Then(IF IsList(agents)
              THEN Put(tenant_ur, <<"agents">>, List(resolved.agents))
              ELSE tenant_ur, LAMBDA copy :
         Then(_collect_placeholder_paths(copy, <<>>), LAMBDA placeholders :
         IF placeholders # <<>>
         THEN [status_code |-> 400, tree |-> PyNone, placeholders |-> placeholders]
         ELSE [status_code |-> 200, tree |-> copy, placeholders |-> <<>>])))

(***************************************************************************)
(* Resolver requests: POST /api/tenant-stack/finalize style inputs         *)
(***************************************************************************)
MaxExtraLen == 2       \* longest extra_env drawn
MaxAgents == 2         \* longest agents list drawn

\* all sequences over S of length at most n
RECURSIVE SeqsUpTo(_, _)
SeqsUpTo(S, n) ==
    IF n = 0 THEN {<<>>}
    ELSE LET shorter == SeqsUpTo(S, n - 1) IN
         shorter \cup {Append(q, x) : q \in shorter, x \in S}

Item(key, value) == <<key, value>>
Record(key, value) == Dict(<<Item(<<"key">>, Str(key)), Item(<<"value">>, value)>>)

Genuine == Str(<<"mine">>)

\* entries a list-shaped extra_env is drawn from: {key, value} records, a
\* record addressed by "name", and an entry that is no dict
ExtraListEntries ==
    { Record(<<"POSTGRES_", "HOST">>, Genuine),
      Record(<<"DEFAULT_MAX_TOKENS">>, Str(<<"PLACEHOLDER">>)),
      Dict(<<Item(<<"name">>, Str(<<"DATABASE_URL">>)),
             Item(<<"value">>, Str(<<"REPLACE_ME_", "DATABASE_URL">>))>>),
      Str(<<"junk">>) }

\* items a mapping-shaped extra_env is drawn from
ExtraDictItems ==
    { Item(<<"POSTGRES_", "HOST">>, Genuine),
      Item(<<"DEFAULT_MAX_TOKENS">>, Str(<<"PLACEHOLDER">>)),
      Item(<<"DATABASE_URL">>, PyNone) }

DistinctKeys(kv) == \A i, j \in 1..Len(kv) : kv[i][1] = kv[j][1] => i = j

ExtraEnvItems ==
    {<<>>}
    \cup {<<Item(<<"extra_env">>, List(q))>> : q \in SeqsUpTo(ExtraListEntries, MaxExtraLen)}
    \cup {<<Item(<<"extra_env">>, Dict(q))>> :
             q \in {kv \in SeqsUpTo(ExtraDictItems, MaxExtraLen) : DistinctKeys(kv)}}

ConnectItems == {<<>>, <<Item(<<"connectDatabase">>, Bool(TRUE))>>}

DatabaseUrlItems ==
    { <<>>,
      <<Item(<<"DATABASE_URL">>, Str(<<"REPLACE_ME_", "DATABASE_URL">>))>>,
      <<Item(<<"DATABASE_URL">>, Genuine)>> }

GithubTokenItems ==
    {<<>>, <<Item(<<"GITHUB_TOKEN">>, Str(<<"REPLACE_ME_", "GITHUB_TOKEN">>))>>}

MaxTokensItems ==
    { <<>>,
      <<Item(<<"DEFAULT_MAX_TOKENS">>, Str(<<" ", "Placeholder", " ">>))>>,
      <<Item(<<"DEFAULT_MAX_TOKENS">>, Str(<<"4096">>))>> }

Environments ==
    {Dict(c \o u \o g \o m \o x) :
        c \in ConnectItems, u \in DatabaseUrlItems, g \in GithubTokenItems,
        m \in MaxTokensItems, x \in ExtraEnvItems}

CoreAgent(env) ==
    Dict(<<Item(<<"name">>, Str(<<"core">>)), Item(<<"environment">>, env)>>)

\* the agents list: the agent under resolution after 0..MaxAgents-1 entries
\* that are no objects (the loop skips them)
TenantTrees ==
    {Dict(<<Item(<<"agents">>,
                 List([i \in 1..n |-> IF i = n THEN CoreAgent(env) ELSE Str(<<"x">>)]))>>) :
        n \in 1..MaxAgents, env \in Environments}

FullMeta ==
    Dict(<<Item(<<"database_instance">>, Str(<<"proj:region:inst">>)),
           Item(<<"database_name">>, Str(<<"db1">>)),
           Item(<<"db_", "username">>, Str(<<"u">>)),
           Item(<<"db_", "password">>, Str(<<"p">>))>>)

TenantMetas ==
    { FullMeta,
      Dict(SubSeq(FullMeta.kv, 1, 2)),       \* no db_username / db_password
      Dict(SubSeq(FullMeta.kv, 2, 4)) }      \* no database_instance

CanonicalTrees ==
    { Dict(<<>>),
      Dict(<<Item(<<"agents">>, List(<<CoreAgent(Dict(<<
          Item(<<"db_", "username">>, Str(<<"cu">>)),
          Item(<<"db_", "password">>, Str(<<"cp">>)),
          Item(<<"POSTGRES_", "PORT">>, Str(<<"6543">>)),
          Item(<<"extra_env">>,
               List(<<Record(<<"DEFAULT_MAX_TOKENS">>, Str(<<"8192">>))>>))>>))>>))>>) }

\* keys written to an extra_env
ExtraKeys == {<<"POSTGRES_", "HOST">>, <<"DEFAULT_MAX_TOKENS">>, <<"B">>}

(***************************************************************************)
(* Tenant stack template sanitizer (src/tenant_stack_template.py)          *)
(* Keys and values are held one character per token; a placeholder the     *)
(* code inserts ("{{PROJECT_ID}}", "REPLACE_ME_", "https://") is one token.*)
(***************************************************************************)
STRICT_PLACEHOLDERS ==
    << <<<<"p", "r", "o", "j", "e", "c", "t", "_", "i", "d">>,
          <<"{{PROJECT_ID}}">>>>,
       <<<<"t", "e", "n", "a", "n", "t", "_", "i", "d">>,
          <<"{{TENANT_ID}}">>>>,
       <<<<"g", "o", "o", "g", "l", "e", "_", "c", "l", "o", "u", "d", "_", "p", "r", "o", "j", "e", "c", "t">>,
          <<"{{PROJECT_ID}}">>>>,
       <<<<"r", "e", "g", "i", "o", "n">>,
          <<"{{REGION}}">>>>,
       <<<<"d", "a", "t", "a", "b", "a", "s", "e", "_", "i", "n", "s", "t", "a", "n", "c", "e">>,
          <<"{{DB_INSTANCE}}">>>>,
       <<<<"d", "a", "t", "a", "b", "a", "s", "e", "_", "n", "a", "m", "e">>,
          <<"{{DB_NAME}}">>>>,
       <<<<"d", "b", "_", "u", "s", "e", "r", "n", "a", "m", "e">>,
          <<"{{DB_USERNAME}}">>>>,
       <<<<"d", "b", "_", "p", "a", "s", "s", "w", "o", "r", "d">>,
          <<"REPLACE_ME_">> \o <<"D", "B", "_", "P", "A", "S", "S", "W", "O", "R", "D">>>>,
       <<<<"g", "i", "t", "h", "u", "b", "_", "t", "o", "k", "e", "n">>,
          <<"REPLACE_ME_">> \o <<"G", "I", "T", "H", "U", "B", "_", "T", "O", "K", "E", "N">>>> >>

SENSITIVE_KEYWORDS ==
    << <<"t", "o", "k", "e", "n">>,
       <<"s", "e", "c", "r", "e", "t">>,
       <<"p", "a", "s", "s", "w", "o", "r", "d">>,
       <<"a", "p", "i", "_", "k", "e", "y">>,
       <<"a", "p", "i", "k", "e", "y">>,
       <<"a", "u", "t", "h">>,
       <<"c", "r", "e", "d", "e", "n", "t", "i", "a", "l">>,
       <<"s", "a">>,
       <<"s", "i", "d">>,
       <<"k", "e", "y">> >>

URL_KEYWORDS == << <<"u", "r", "l">>, <<"e", "n", "d", "p", "o", "i", "n", "t">>, <<"b", "a", "s", "e", "_", "u", "r", "l">> >>

project_id_keys ==
    { <<"p", "r", "o", "j", "e", "c", "t", "_", "i", "d">>,
      <<"t", "e", "n", "a", "n", "t", "_", "i", "d">>,
      <<"g", "o", "o", "g", "l", "e", "_", "c", "l", "o", "u", "d", "_", "p", "r", "o", "j", "e", "c", "t">> }
region_key == <<"r", "e", "g", "i", "o", "n">>
database_instance_key == <<"d", "a", "t", "a", "b", "a", "s", "e", "_", "i", "n", "s", "t", "a", "n", "c", "e">>

\* re.sub(r"[^A-Za-z0-9]+", "_", key): each run of other characters becomes
\* one underscore
RECURSIVE CollapseFrom(_, _)
CollapseFrom(s, i) ==
    IF i > Len(s) THEN <<>>
    ELSE IF IsAlnum(s[i]) THEN <<s[i]>> \o CollapseFrom(s, i + 1)
    ELSE IF i > 1 /\ ~IsAlnum(s[i - 1]) THEN CollapseFrom(s, i + 1)
    ELSE <<"_">> \o CollapseFrom(s, i + 1)

\* str.strip("_")
StripUnderscores(s) ==
    LET kept == {i \in 1..Len(s) : s[i] # "_"} IN
    IF kept = {} THEN <<>>
    ELSE SubSeq(s, CHOOSE i \in kept : \A j \in kept : i <= j,
                   CHOOSE i \in kept : \A j \in kept : i >= j)

VALUE == <<"V", "A", "L", "U", "E">>

_normalize_key(key) ==
    IF ~Truthy(key) THEN VALUE
    ELSE LET cleaned == StripUnderscores(CollapseFrom(key.s, 1)) IN
         IF cleaned = <<>> THEN VALUE ELSE Upper(cleaned)

\* the (project_ids, regions, db_instances) sets of walk(payload)
RECURSIVE _collect_known_coordinates(_)
_collect_known_coordinates(node) ==
    LET none == [project_ids |-> {}, regions |-> {}, db_instances |-> {}]
        Merge(a, b) == [project_ids |-> a.project_ids \cup b.project_ids,
                        regions |-> a.regions \cup b.regions,
                        db_instances |-> a.db_instances \cup b.db_instances]
        Own(item) ==
            LET lower == Lower(item[1]) IN
            IF ~IsStr(item[2]) THEN none
            ELSE [project_ids |-> IF lower \in project_id_keys THEN {item[2].s} ELSE {},
                  regions |-> IF lower = region_key THEN {item[2].s} ELSE {},
                  db_instances |-> IF lower = database_instance_key
                                   THEN {item[2].s} ELSE {}]
        children ==
            IF IsDict(node)
            THEN {Merge(Own(node.kv[i]), _collect_known_coordinates(node.kv[i][2])) :
                      i \in 1..Len(node.kv)}
            ELSE IF IsList(node)
            THEN {_collect_known_coordinates(node.items[i]) : i \in 1..Len(node.items)}
            ELSE {}
    IN  [project_ids |-> UNION {c.project_ids : c \in children},
         regions |-> UNION {c.regions : c \in children},
         db_instances |-> UNION {c.db_instances : c \in children}]

\* the placeholder a key calls for, None when the key calls for none
_placeholder_for_key(key) ==
    IF ~Truthy(key) THEN PyNone
    ELSE LET lower == Lower(key.s) IN
         IF \E i \in 1..Len(STRICT_PLACEHOLDERS) : STRICT_PLACEHOLDERS[i][1] = lower
         THEN Str(STRICT_PLACEHOLDERS[
                  CHOOSE i \in 1..Len(STRICT_PLACEHOLDERS) :
                      STRICT_PLACEHOLDERS[i][1] = lower][2])
         ELSE IF \E i \in 1..Len(URL_KEYWORDS) : Contains(lower, URL_KEYWORDS[i])
         THEN Str(<<"https://", "REPLACE_ME_">> \o _normalize_key(key))
         ELSE IF \/ \E i \in 1..Len(SENSITIVE_KEYWORDS) :
                        Contains(lower, SENSITIVE_KEYWORDS[i])
                 \/ StartsWith(lower, <<"d", "b">>)
         THEN Str(<<"REPLACE_ME_">> \o _normalize_key(key))
         ELSE PyNone

_looks_like_secret_value(value) ==
    \/ StartsWith(value, <<"-", "-", "-", "-", "-", "B", "E", "G", "I", "N">>)
    \/ StartsWith(value, <<"s", "s", "h", "-">>)
    \/ /\ Len(value) > 32
       /\ \E i \in 1..Len(value) : value[i] \in DigitChars
       /\ \E i \in 1..Len(value) : IsLetter(value[i])
       /\ ~StartsWith(Lower(value), <<"h", "t", "t", "p">>)

\* tokens is the coordinate set in the order the for loop meets its members
RECURSIVE ReplaceTokensFrom(_, _, _, _)
ReplaceTokensFrom(value, tokens, i, placeholder) ==
    IF i > Len(tokens) THEN value
    ELSE Then(IF tokens[i] # <<>> THEN Replace(value, tokens[i], placeholder)
              ELSE value,
              LAMBDA replaced : ReplaceTokensFrom(replaced, tokens, i + 1, placeholder))

_replace_known_tokens(value, tokens, placeholder) ==
    ReplaceTokensFrom(value, tokens, 1, placeholder)

\* re.sub(r"\\b\\d{11,}\\b", "{{PROJECT_NUMBER}}", s): in a raw string each
\* doubled backslash is the regex for one backslash character, so the
\* pattern is: backslash, b, backslash, eleven or more letters d, backslash, b
RECURSIVE RunOf(_, _, _)
RunOf(s, i, c) == IF i <= Len(s) /\ s[i] = c THEN 1 + RunOf(s, i + 1, c) ELSE 0

MinProjectNumberRun == 11

ProjectNumberMatch(s, i) ==
    IF i + 2 <= Len(s) /\ SubSeq(s, i, i + 2) = <<"\\", "b", "\\">>
    THEN LET run == RunOf(s, i + 3, "d") IN
         IF /\ run >= MinProjectNumberRun
            /\ i + 4 + run <= Len(s)
            /\ SubSeq(s, i + 3 + run, i + 4 + run) = <<"\\", "b">>
         THEN 5 + run ELSE 0
    ELSE 0

RECURSIVE ProjectNumberSubFrom(_, _)
ProjectNumberSubFrom(s, i) ==
    IF i > Len(s) THEN <<>>
    ELSE IF ProjectNumberMatch(s, i) > 0
    THEN <<"{{PROJECT_NUMBER}}">> \o ProjectNumberSubFrom(s, i + ProjectNumberMatch(s, i))
    ELSE <<s[i]>> \o ProjectNumberSubFrom(s, i + 1)

ProjectNumberSub(s) == ProjectNumberSubFrom(s, 1)

SanitizeStr(value, key, project_ids, regions, db_instances) ==
    LET placeholder == _placeholder_for_key(key) IN
    IF Truthy(placeholder) THEN placeholder
    ELSE Then(_replace_known_tokens(value, project_ids, <<"{{PROJECT_ID}}">>),
         LAMBDA s1 :
         Then(_replace_known_tokens(s1, regions, <<"{{REGION}}">>),
         LAMBDA s2 :
         Then(_replace_known_tokens(s2, db_instances, <<"{{DB_INSTANCE}}">>),
         LAMBDA s3 :
         Then(ProjectNumberSub(s3),
         LAMBDA sanitized :
             IF sanitized # value THEN Str(sanitized)
             ELSE IF _looks_like_secret_value(value)
             THEN Str(<<"REPLACE_ME_">> \o _normalize_key(key))
             ELSE Str(value)))))

\* key is None for the root and for the items of a list
RECURSIVE _sanitize_value(_, _, _, _, _)
_sanitize_value(value, key, project_ids, regions, db_instances) ==
    IF IsDict(value)
    THEN Dict([i \in 1..Len(value.kv) |->
                  <<value.kv[i][1],
                    _sanitize_value(value.kv[i][2], Str(value.kv[i][1]),
                                    project_ids, regions, db_instances)>>])
    ELSE IF IsList(value)
    THEN List([i \in 1..Len(value.items) |->
                  _sanitize_value(value.items[i], PyNone,
                                  project_ids, regions, db_instances)])
    ELSE IF ~IsStr(value) THEN value
    ELSE SanitizeStr(value.s, key, project_ids, regions, db_instances)

\* the orders in which a for loop can meet the members of a set
IterationOrders(S) ==
    {q \in [1..Cardinality(S) -> S] : \A i, j \in 1..Cardinality(S) : q[i] = q[j] => i = j}

\* project_order, region_order, instance_order: the iteration orders of the
\* three coordinate sets in this run
sanitize_tenant_stack_template(payload, project_order, region_order, instance_order) ==
    _sanitize_value(payload, PyNone, project_order, region_order, instance_order)

(***************************************************************************)
(* Raw template trees                                                      *)
(***************************************************************************)
MaxRawItems == 3       \* most items in the raw tree's top-level dict

RawKeys ==
    { <<"p", "r", "o", "j", "e", "c", "t", "_", "i", "d">>,
      <<"T", "e", "n", "a", "n", "t", "_", "I", "d">>,
      <<"p", "a", "s", "s", "w", "o", "r", "d">>,
      <<"n", "o", "t", "e">> }

RawValues ==
    { Str(<<"a", "b">>),
      Str(<<"a", "b", "c">>),
      Str(<<"1", "2", "3", "4", "5", "6", "7", "8", "9", "0", "1", "2">>),
      List(<<Str(<<"x", "a", "b", "c">>), Bool(TRUE)>>),
      Dict(<<Item(<<"r", "e", "g", "i", "o", "n">>, Str(<<"c">>)),
             Item(<<"o", "w", "n", "e", "r">>, Str(<<"a", "b", "c">>))>>) }

RawTrees ==
    {Dict(kv) : kv \in {q \in SeqsUpTo(RawKeys \X RawValues, MaxRawItems) : DistinctKeys(q)}}

(***************************************************************************)
(* Template cache (src/tenant_stack_template.py, get_tenant_stack_template)*)
(***************************************************************************)
TEMPLATE_ID == "tenant-stack-default"
TEMPLATE_LABEL == "Default 10-agent Tenant Stack"
TEMPLATE_DESCRIPTION ==
    "Known-good wiring for Thunderdome/Thunderdeploy: core, broker, MCP, scheduling, portal, etc."

\* what the template path can hold: nothing, text that json.loads rejects, or
\* a raw template tree
MissingFile == [file |-> "missing"]
UnparseableFile == [file |-> "unparseable"]
TemplateFiles ==
    {MissingFile, UnparseableFile} \cup {t \in RawTrees : Len(t.kv) <= 1}

NoCall == [outcome |-> "none"]

\* `if _template_cache is not None`
cache_hit_Never(cache) == FALSE

cache_hit(cache) == cache # PyNone

\* one call: the outcome, with whether the call read the file
get_tenant_stack_template ==
    IF cache_hit(_template_cache)
    THEN /\ template_resp' = [outcome |-> "ok", value |-> _template_cache,
                              read_file |-> FALSE]
         /\ UNCHANGED _template_cache
    ELSE IF template_file = MissingFile
    THEN /\ template_resp' = [outcome |-> "FileNotFoundError", value |-> PyNone,
                              read_file |-> TRUE]
         /\ UNCHANGED _template_cache
    ELSE IF template_file = UnparseableFile
    THEN /\ template_resp' = [outcome |-> "ValueError", value |-> PyNone,
                              read_file |-> TRUE]
         /\ UNCHANGED _template_cache
    ELSE LET found == _collect_known_coordinates(template_file) IN
         \E project_order \in IterationOrders(found.project_ids),
            region_order \in IterationOrders(found.regions),
            instance_order \in IterationOrders(found.db_instances) :
             /\ _template_cache' =
                    [id |-> TEMPLATE_ID,
                     label |-> TEMPLATE_LABEL,
                     description |-> TEMPLATE_DESCRIPTION,
                     version |-> 1,
                     userrequirements |->
                         sanitize_tenant_stack_template(
                             template_file, project_order, region_order, instance_order)]
             /\ template_resp' = [outcome |-> "ok", value |-> _template_cache',
                                  read_file |-> TRUE]

(***************************************************************************)
(* Provider bootstrap (src/main.py, lines 483-506 and 898-973)             *)
(***************************************************************************)
InvalidJson == [t |-> "invalid"]     \* request.json() / json.loads raises

\* a value of the body that `(body.get(key) or default).strip()` accepts: a
\* falsy value gives way to the default, a truthy one must be a str
strippable(body, key) == ~Truthy(Get(body, key)) \/ IsStr(Get(body, key))

\* region = (body.get("region") or "us-central1").strip() or "us-central1"
request_region_Unstripped(body) ==
    LET given == PyOr(Get(body, <<"region">>), Str(<<"us-central1">>)).s
    IN  IF Strip(given) # <<>> THEN given ELSE <<"us-central1">>

request_region(body) ==
    LET given == Strip(PyOr(Get(body, <<"region">>), Str(<<"us-central1">>)).s)
    IN  IF given # <<>> THEN given ELSE <<"us-central1">>

\* branch = (body.get("branch") or "main").strip() or "main"
request_branch(body) ==
    LET given == Strip(PyOr(Get(body, <<"branch">>), Str(<<"main">>)).s)
    IN  IF given # <<>> THEN given ELSE <<"main">>

\* repo_url = (body.get("repo_url") or "https://...thunderdeploy.git").strip()
request_repo_url(body) ==
    Strip(PyOr(Get(body, <<"repo_url">>),
               Str(<<"https://github.com/thunderdomeai/thunderdeploy.git">>)).s)

\* entry.get("projectId") or sa_info.get("project_id")
source_project_id(entry) ==
    LET sa_info == PyOr(Get(entry, <<"credential">>), Dict(<<>>))
    IN  PyOr(Get(entry, <<"projectId">>), Get(sa_info, <<"project_id">>))

\* entry: the selected entry of the source store, None when nothing is
\* selected; token_ok: the credential could be refreshed to an access token
_get_source_build_token_and_project(entry, token_ok) ==
    IF ~Truthy(entry)
    THEN [status_code |-> 400, project_id |-> PyNone, sa_email |-> PyNone]
    ELSE IF ~Truthy(source_project_id(entry))
    THEN [status_code |-> 400, project_id |-> PyNone, sa_email |-> PyNone]
    ELSE IF ~token_ok
    THEN [status_code |-> 500, project_id |-> PyNone, sa_email |-> PyNone]
    ELSE [status_code |-> 200,
          project_id |-> source_project_id(entry),
          sa_email |-> Get(PyOr(Get(entry, <<"credential">>), Dict(<<>>)),
                           <<"client_email">>)]

clone_step(branch, repo_url) ==
    Dict(<< <<<<"name">>, Str(<<"gcr.io/cloud-builders/git">>)>>,
            <<<<"entrypoint">>, Str(<<"/bin/sh">>)>>,
            <<<<"args">>, List(<<Str(<<"-c">>),
                            Str(<<"git", " ", "clone", " ", "--depth", " ", "1", " ",
                                  "--branch", " ">> \o branch \o <<" ">> \o repo_url)>>)>> >>)

\* the shell line of the second step; a token is a word, or one of the
\* characters = $ { } and the blank
bootstrap_command ==
    <<"apt-get", " ", "update", " ", "&&", " ",
      "apt-get", " ", "install", " ", "-y", " ", "make", " ", "&&", " ",
      "PROJECT_ID", "=", "$", "{", "PROJECT_ID", "}", " ",
      "REGION", "=", "$", "{", "REGION", "}", " ",
      "make", " ", "bootstrap-provider">>

bootstrap_step(project_id, region) ==
    Dict(<< <<<<"name">>, Str(<<"gcr.io/cloud-builders/gcloud">>)>>,
            <<<<"entrypoint">>, Str(<<"/bin/sh">>)>>,
            <<<<"dir">>, Str(<<"thunderdeploy">>)>>,
            <<<<"env">>, List(<<Str(<<"PROJECT_ID", "=">> \o project_id),
                           Str(<<"REGION", "=">> \o region),
                           Str(<<"DEBIAN_FRONTEND", "=", "noninteractive">>)>>)>>,
            <<<<"args">>, List(<<Str(<<"-c">>), Str(bootstrap_command)>>)>> >>)

\* build_body, with serviceAccount only `if sa_email`
build_body(project_id, sa_email, region, branch, repo_url) ==
    LET body == Dict(<<
            <<<<"steps">>, List(<<clone_step(branch, repo_url),
                             bootstrap_step(project_id, region)>>)>>,
            <<<<"timeout">>, Str(<<"1800s">>)>>,
            <<<<"logsBucket">>, Str(<<"gs://">> \o project_id \o <<"-thunder-deploy-logs">>)>>,
            <<<<"options">>, Dict(<< <<<<"substitutionOption">>, Str(<<"ALLOW_LOOSE">>)>> >>)>>,
            <<<<"tags">>, List(<<Str(<<"bootstrap-provider">>), Str(<<"unified-ui">>)>>)>> >>)
    IN  IF Truthy(sa_email) THEN Put(body, <<"serviceAccount">>, sa_email) ELSE body

\* what Cloud Build does with the posted request: the connection fails
\* (httpx.RequestError), it answers with an error status, it answers 200
\* with a body that is not JSON, or it answers 200 with the build
CloudBuildOutcomes == {"RequestError", "Forbidden", "NoPayload", "Created"}

cloud_build_status(cloud) ==
    CASE cloud = "RequestError" -> 502
      [] cloud = "Forbidden" -> 403
      [] cloud = "NoPayload" -> 200
      [] cloud = "Created" -> 200

NoAnswer == [status_code |-> 0, result |-> PyNone]

\* POST /api/bootstrap/provider
bootstrap_provider(token_ok, cloud) ==
    IF boot_body = InvalidJson
    THEN /\ boot_answer' = [status_code |-> 400, result |-> PyNone]
         /\ boot_posted' = PyNone
    ELSE IF ~IsDict(boot_body)
            \/ \E key \in {<<"region">>, <<"branch">>, <<"repo_url">>} : ~strippable(boot_body, key)
    THEN /\ boot_answer' = [status_code |-> 500, result |-> PyNone]
         /\ boot_posted' = PyNone
    ELSE LET region == request_region(boot_body)
             branch == request_branch(boot_body)
             repo_url == request_repo_url(boot_body)
             source == _get_source_build_token_and_project(boot_source, token_ok)
         IN  IF source.status_code # 200
             THEN /\ boot_answer' = [status_code |-> source.status_code, result |-> PyNone]
                  /\ boot_posted' = PyNone
             ELSE /\ boot_posted' = build_body(source.project_id.s, source.sa_email,
                                               region, branch, repo_url)
                  /\ boot_answer' =
                        IF cloud = "Created"
                        THEN [status_code |-> cloud_build_status(cloud),
                              result |-> Dict(<< <<<<"projectId">>, source.project_id>>,
                                                 <<<<"region">>, Str(region)>>,
                                                 <<<<"branch">>, Str(branch)>>,
                                                 <<<<"repo">>, Str(repo_url)>> >>)]
                        ELSE [status_code |-> cloud_build_status(cloud),
                              result |-> PyNone]

\* request bodies: region missing, null, empty, blank, plain, padded, or not
\* a str; a branch given or not
RegionItems ==
    {<<>>} \cup
    {<< <<<<"region">>, v>> >> :
        v \in {PyNone, Str(<<>>), Str(<<" ">>), Str(<<"e", "u">>),
               Str(<<" ", "e", "u", " ">>), Bool(TRUE)}}

BranchItems == {<<>>, << <<<<"branch">>, Str(<<"d", "e", "v">>)>> >>}

BootBodies ==
    {InvalidJson, List(<<>>)} \cup
    {Dict(r \o b) : r \in RegionItems, b \in BranchItems}

\* the selected source entry: none, or an entry whose project is named by
\* projectId, by the credential's project_id, by both, or by neither
SourceCredentials ==
    {Dict(p \o e) :
        p \in {<<>>, << <<<<"project_id">>, Str(<<"p", "1">>)>> >>},
        e \in {<<>>, << <<<<"client_email">>, Str(<<"sa@p1">>)>> >>}}

BootSources ==
    {PyNone} \cup
    {Dict(p \o << <<<<"credential">>, c>> >>) :
        p \in {<<>>, << <<<<"projectId">>, Str(<<"p", "2">>)>> >>},
        c \in SourceCredentials}

(***************************************************************************)
(* Store files as json.loads returns them (src/main.py, lines 290-345 and  *)
(* 373-397).  The credential store section follows these functions on the  *)
(* records the handlers write; here they are followed on any content a     *)
(* store file can hold, every field with the value and type it has.        *)
(***************************************************************************)
Raised == [t |-> "raised"]       \* an exception leaves the function

\* a dict key or set member must be hashable: a list or a dict raises TypeError
Hashable(v) == ~IsDict(v) /\ ~IsList(v)

_empty_store_json ==
    Dict(<<Item(<<"selectedId">>, PyNone), Item(<<"entries">>, Dict(<<>>))>>)

EntryStatuses == {Str(<<status>>) : status \in VALID_ENTRY_STATUSES}

_normalize_entry_json(entry) ==
    IF ~IsDict(entry)
    THEN Dict(<<Item(<<"credential">>, PyNone),
                Item(<<"label">>, PyNone),
                Item(<<"createdAt">>, PyNone),
                Item(<<"status">>, Str(<<"unverified">>))>>)
    ELSE LET status == PyOr(Get(entry, <<"status">>), Str(<<"unverified">>)) IN
         IF ~Hashable(status)
         THEN Raised
         ELSE Dict(<<
            Item(<<"credential">>, Get(entry, <<"credential">>)),
            Item(<<"label">>, Get(entry, <<"label">>)),
            Item(<<"createdAt">>,
                 PyOr(PyOr(Get(entry, <<"createdAt">>), Get(entry, <<"created_at">>)),
                      PyNone)),
            Item(<<"status">>,
                 IF status \in EntryStatuses THEN status ELSE Str(<<"unverified">>)),
            Item(<<"projectId">>,
                 PyOr(Get(entry, <<"projectId">>), Get(entry, <<"project_id">>))),
            Item(<<"verifiedAt">>,
                 PyOr(Get(entry, <<"verifiedAt">>), Get(entry, <<"verified_at">>))),
            Item(<<"primedAt">>,
                 PyOr(Get(entry, <<"primedAt">>), Get(entry, <<"primed_at">>))),
            Item(<<"lastCheck">>,
                 PyOr(Get(entry, <<"lastCheck">>), Get(entry, <<"last_check">>))),
            Item(<<"lastPrimeResult">>,
                 PyOr(Get(entry, <<"lastPrimeResult">>),
                      Get(entry, <<"last_prime_result">>)))>>)

_entry_activation_allowed_json(type_name, entry) ==
    LET status == Get(entry, <<"status">>) IN
    \/ status = Str(<<"primed">>)
    \/ type_name = "source" /\ status = Str(<<"verified">>)

\* `if store["selectedId"]:` and what follows; the keys of the entries are
\* strs, so a selectedId of another hashable type finds no entry
checked_selection(selected, entries, type_name) ==
    IF ~Truthy(selected)
    THEN selected
    ELSE IF ~Hashable(selected)
    THEN Raised
    ELSE LET entry == IF IsStr(selected) THEN Get(entries, selected.s) ELSE PyNone
         IN  IF ~Truthy(entry) \/ ~_entry_activation_allowed_json(type_name, entry)
             THEN PyNone
             ELSE selected

_normalize_store_payload_json(raw, type_name) ==
    IF ~IsDict(raw)
    THEN _empty_store_json
    ELSE LET entries == IF Has(raw, <<"entries">>)
                        THEN Get(raw, <<"entries">>) ELSE Dict(<<>>)
         IN  IF ~IsDict(entries)
             THEN Raised            \* entries.items(): AttributeError
             ELSE LET normalized_entries ==
                          Dict([i \in 1..Len(entries.kv) |->
                                  Item(entries.kv[i][1],
                                       _normalize_entry_json(entries.kv[i][2]))])
                      selected == checked_selection(Get(raw, <<"selectedId">>),
                                                    normalized_entries, type_name)
                  IN  IF \E i \in 1..Len(entries.kv) :
                             normalized_entries.kv[i][2] = Raised
                      THEN Raised
                      ELSE IF selected = Raised
                      THEN Raised
                      ELSE Dict(<<Item(<<"selectedId">>, selected),
                                  Item(<<"entries">>, normalized_entries)>>)

\* `except Exception: return _empty_store()` around json.loads and the
\* normalization
except_Exception_Reraise(outcome) == outcome

except_Exception(outcome) == IF outcome = Raised THEN _empty_store_json ELSE outcome

_load_store_json(text, type_name) ==
    IF text = MissingFile
    THEN _empty_store_json
    ELSE except_Exception(IF text = InvalidJson
                          THEN Raised
                          ELSE _normalize_store_payload_json(text, type_name))

\* what a store file can hold
MaxStoredEntries == 1

StoredIds == {<<"a">>, <<"b">>}

\* the status of a stored entry: missing, null, empty, unknown, one of the
\* three statuses, a bool, a list
StoredStatusItems ==
    {<<>>} \cup
    {<<Item(<<"status">>, v)>> :
        v \in {PyNone, Str(<<>>), Str(<<"active">>), Bool(TRUE),
               List(<<Str(<<"primed">>)>>)} \cup EntryStatuses}

StoredEntryValues ==
    {PyNone, Str(<<"key.json">>)} \cup
    {Dict(<<Item(<<"credential">>,
                 Dict(<<Item(<<"type">>, Str(<<"service_account">>))>>))>> \o status) :
        status \in StoredStatusItems}

StoredEntriesItems ==
    {<<>>, <<Item(<<"entries">>, PyNone)>>, <<Item(<<"entries">>, List(<<>>))>>}
    \cup {<<Item(<<"entries">>, Dict(kv))>> :
             kv \in {q \in SeqsUpTo(StoredIds \X StoredEntryValues, MaxStoredEntries) :
                        DistinctKeys(q)}}

StoredSelectedItems ==
    {<<>>} \cup
    {<<Item(<<"selectedId">>, v)>> :
        v \in {PyNone, Str(<<>>), Str(<<"a">>), Str(<<"z">>), List(<<Str(<<"a">>)>>)}}

StoredTexts ==
    {MissingFile, InvalidJson, PyNone, List(<<>>), Str(<<"{}">>)}
    \cup {Dict(s \o e) : s \in StoredSelectedItems, e \in StoredEntriesItems}

(***************************************************************************)
(* Specifications                                                          *)
(***************************************************************************)
NotCalled == [status_code |-> 0, tree |-> PyNone, placeholders |-> <<>>]
NotDone == [t |-> "pending"]

StoreIdle ==
    /\ files = [t \in VALID_CREDENTIAL_TYPES |-> NoFile]
    /\ client = "source"
    /\ resp = [op |-> "none", type_name |-> "source", id |-> NoId, status_code |-> 0]

ResolverIdle ==
    /\ request_ur = Dict(<<>>)
    /\ request_meta = Dict(<<>>)
    /\ canonical_file = Dict(<<>>)
    /\ finalized = NotCalled
    /\ refinalized = NotCalled

EnvIdle ==
    /\ ex_env = Dict(<<>>)
    /\ ex_key = <<>>
    /\ ex_value = PyNone
    /\ ex_written = NotDone
    /\ ex_read = NotDone

SanitizerIdle ==
    /\ raw_payload = Dict(<<>>)
    /\ first_run = NotDone
    /\ second_run = NotDone

RaceIdle ==
    /\ inflight = NoRequest
    /\ revived = FALSE

CacheIdle ==
    /\ template_file = MissingFile
    /\ _template_cache = PyNone
    /\ template_resp = NoCall

BootIdle ==
    /\ boot_body = Dict(<<>>)
    /\ boot_source = PyNone
    /\ boot_posted = PyNone
    /\ boot_answer = NoAnswer

LoadIdle ==
    /\ stored_text = InvalidJson
    /\ loaded = NotDone
    /\ reloaded = NotDone

\* the credential store under requests
Init == StoreInit /\ ResolverIdle /\ EnvIdle /\ SanitizerIdle /\ RaceIdle /\ CacheIdle /\ BootIdle /\ LoadIdle
Next == Add \/ Select \/ Delete \/ Verify \/ MarkPrimed
Spec == Init /\ [][Next]_vars

\* the credential store under requests that interleave at their awaits
\* the handlers are the same for both types; the requests followed here are
\* those sent to the source store
FreshStores ==
    /\ client = "source"
    /\ files = [t \in VALID_CREDENTIAL_TYPES |-> NoFile]
    /\ resp = [op |-> "none", type_name |-> client, id |-> NoId, status_code |-> 0]

InitRace == FreshStores /\ ResolverIdle /\ EnvIdle /\ SanitizerIdle /\ RaceIdle /\ CacheIdle /\ BootIdle /\ LoadIdle
NextRace ==
    \/ Add \/ Select \/ Delete
    \/ VerifyLoad \/ VerifyWrite \/ MarkPrimedLoad \/ MarkPrimedWrite
    \/ MarkPrimedMeanwhile
SpecRace == InitRace /\ [][NextRace]_vars

\* the resolver: a finalize request, then a second one on the tree it returned
ResolverInit ==
    /\ request_ur \in TenantTrees
    /\ request_meta \in TenantMetas
    /\ canonical_file \in CanonicalTrees
    /\ finalized = NotCalled
    /\ refinalized = NotCalled

Finalize ==
    /\ finalized = NotCalled
    /\ finalized' =
           finalize_tenant_userrequirements(request_ur, request_meta, canonical_file)
    /\ request_ur' = caller_tree_after(request_ur, finalized')
    /\ UNCHANGED <<request_meta, canonical_file, refinalized>>
    /\ UNCHANGED <<storeVars, envVars, sanitizerVars, raceVars, cacheVars, bootVars, loadVars>>

FinalizeAgain ==
    /\ finalized.status_code = 200
    /\ refinalized = NotCalled
    /\ refinalized' =
           finalize_tenant_userrequirements(finalized.tree, request_meta, canonical_file)
    /\ finalized' = [finalized EXCEPT !.tree = caller_tree_after(@, refinalized')]
    /\ UNCHANGED <<request_ur, request_meta, canonical_file>>
    /\ UNCHANGED <<storeVars, envVars, sanitizerVars, raceVars, cacheVars, bootVars, loadVars>>

InitResolver == StoreIdle /\ ResolverInit /\ EnvIdle /\ SanitizerIdle /\ RaceIdle /\ CacheIdle /\ BootIdle /\ LoadIdle
NextResolver == Finalize \/ FinalizeAgain
SpecResolver == InitResolver /\ [][NextResolver]_vars

\* _set_extra_env on an environment, then _get_extra_env of the key written
EnvInit ==
    /\ ex_env \in {Dict(x) : x \in ExtraEnvItems}
                 \cup {Dict(<<Item(<<"extra_env">>, Str(<<"junk">>))>>)}
    /\ ex_key \in ExtraKeys
    /\ ex_value \in {Str(<<"2">>), Genuine}
    /\ ex_written = NotDone
    /\ ex_read = NotDone

SetExtraEnv ==
    /\ ex_written = NotDone
    /\ ex_written' = _set_extra_env(ex_env, ex_key, ex_value)
    /\ UNCHANGED <<ex_env, ex_key, ex_value, ex_read>>
    /\ UNCHANGED <<storeVars, resolverVars, sanitizerVars, raceVars, cacheVars, bootVars, loadVars>>

GetExtraEnv ==
    /\ ex_written # NotDone
    /\ ex_read = NotDone
    /\ ex_read' = _get_extra_env(ex_written, ex_key)
    /\ UNCHANGED <<ex_env, ex_key, ex_value, ex_written>>
    /\ UNCHANGED <<storeVars, resolverVars, sanitizerVars, raceVars, cacheVars, bootVars, loadVars>>

InitExtraEnv == StoreIdle /\ ResolverIdle /\ EnvInit /\ SanitizerIdle /\ RaceIdle /\ CacheIdle /\ BootIdle /\ LoadIdle
NextExtraEnv == SetExtraEnv \/ GetExtraEnv
SpecExtraEnv == InitExtraEnv /\ [][NextExtraEnv]_vars

\* the sanitizer: two runs on the same raw tree, each meeting the members of
\* the coordinate sets in an order of its own
SanitizerInit ==
    /\ raw_payload \in RawTrees
    /\ first_run = NotDone
    /\ second_run = NotDone

Sanitize ==
    /\ first_run = NotDone
    /\ LET found == _collect_known_coordinates(raw_payload) IN
       \E project_order \in IterationOrders(found.project_ids),
          region_order \in IterationOrders(found.regions),
          instance_order \in IterationOrders(found.db_instances) :
           first_run' = sanitize_tenant_stack_template(
                            raw_payload, project_order, region_order, instance_order)
    /\ UNCHANGED <<raw_payload, second_run>>
    /\ UNCHANGED <<storeVars, resolverVars, envVars, raceVars, cacheVars, bootVars, loadVars>>

SanitizeAgain ==
    /\ first_run # NotDone
    /\ second_run = NotDone
    /\ LET found == _collect_known_coordinates(raw_payload) IN
       \E project_order \in IterationOrders(found.project_ids),
          region_order \in IterationOrders(found.regions),
          instance_order \in IterationOrders(found.db_instances) :
           second_run' = sanitize_tenant_stack_template(
                             raw_payload, project_order, region_order, instance_order)
    /\ UNCHANGED <<raw_payload, first_run>>
    /\ UNCHANGED <<storeVars, resolverVars, envVars, raceVars, cacheVars, bootVars, loadVars>>

InitSanitizer == StoreIdle /\ ResolverIdle /\ EnvIdle /\ SanitizerInit /\ RaceIdle /\ CacheIdle /\ BootIdle /\ LoadIdle
NextSanitizer == Sanitize \/ SanitizeAgain
SpecSanitizer == InitSanitizer /\ [][NextSanitizer]_vars

\* the template cache of one process: calls, and the file changing between them
CacheInit ==
    /\ template_file \in TemplateFiles
    /\ _template_cache = PyNone
    /\ template_resp = NoCall

GetTemplate ==
    /\ get_tenant_stack_template
    /\ UNCHANGED template_file
    /\ UNCHANGED <<storeVars, resolverVars, envVars, sanitizerVars, raceVars, bootVars, loadVars>>

\* the file is replaced, removed or corrupted, or the path override is
\* pointed at another file
ChangeFile ==
    /\ \E content \in TemplateFiles :
           /\ content # template_file
           /\ template_file' = content
    /\ UNCHANGED <<_template_cache, template_resp>>
    /\ UNCHANGED <<storeVars, resolverVars, envVars, sanitizerVars, raceVars, bootVars, loadVars>>

InitCache == StoreIdle /\ ResolverIdle /\ EnvIdle /\ SanitizerIdle /\ RaceIdle /\ CacheInit /\ BootIdle /\ LoadIdle
NextCache == GetTemplate \/ ChangeFile
SpecCache == InitCache /\ [][NextCache]_vars

\* provider bootstrap requests against a selected source credential
BootInit ==
    /\ boot_body \in BootBodies
    /\ boot_source \in BootSources
    /\ boot_posted = PyNone
    /\ boot_answer = NoAnswer

BootstrapProvider ==
    /\ \E token_ok \in BOOLEAN, cloud \in CloudBuildOutcomes :
           bootstrap_provider(token_ok, cloud)
    /\ UNCHANGED <<boot_body, boot_source>>
    /\ UNCHANGED <<storeVars, resolverVars, envVars, sanitizerVars, raceVars, cacheVars, loadVars>>

InitBootstrap ==
    StoreIdle /\ ResolverIdle /\ EnvIdle /\ SanitizerIdle /\ RaceIdle /\ CacheIdle /\ BootInit /\ LoadIdle
NextBootstrap == BootstrapProvider
SpecBootstrap == InitBootstrap /\ [][NextBootstrap]_vars

\* a store file of any content is loaded, and the loaded store is normalized
\* once more
LoadInit ==
    /\ stored_text \in StoredTexts
    /\ loaded = NotDone
    /\ reloaded = NotDone

LoadStore ==
    /\ loaded = NotDone
    /\ \E type_name \in VALID_CREDENTIAL_TYPES :
           loaded' = [type_name |-> type_name,
                      store |-> _load_store_json(stored_text, type_name)]
    /\ UNCHANGED <<stored_text, reloaded>>
    /\ UNCHANGED <<storeVars, resolverVars, envVars, sanitizerVars, raceVars, cacheVars, bootVars>>

NormalizeAgain ==
    /\ loaded # NotDone
    /\ reloaded = NotDone
    /\ reloaded' = _normalize_store_payload_json(loaded.store, loaded.type_name)
    /\ UNCHANGED <<stored_text, loaded>>
    /\ UNCHANGED <<storeVars, resolverVars, envVars, sanitizerVars, raceVars, cacheVars, bootVars>>

InitLoad ==
    StoreIdle /\ ResolverIdle /\ EnvIdle /\ SanitizerIdle /\ RaceIdle /\ CacheIdle /\ BootIdle /\ LoadInit
NextLoad == LoadStore \/ NormalizeAgain
SpecLoad == InitLoad /\ [][NextLoad]_vars

(***************************************************************************)
(* Credential store: properties                                            *)
(***************************************************************************)
\* what the store file of a type holds (a missing file holds the empty store)
Persisted(fs, type_name) ==
    IF fs[type_name] = NoFile THEN _empty_store ELSE fs[type_name]

\* the activation predicate as the specification states it:
\* source accepts {verified, primed}, target accepts only {primed}
Activatable(type_name, status) ==
    status \in (IF type_name = "source" THEN {"verified", "primed"} ELSE {"primed"})

\* C1 - Activation invariant: after any sequence of add / verify / markPrimed /
\* delete / select calls, a non-null selectedId of the store names an existing
\* entry whose status satisfies the activation predicate of the store's class.
C1_ActivationInvariant ==
    \A t \in VALID_CREDENTIAL_TYPES :
        LET store == Persisted(files, t) IN
        store.selectedId # NoId =>
            /\ store.selectedId \in DOMAIN store.entries
            /\ Activatable(t, store.entries[store.selectedId].status)

\* C2 - Monotonic status: a successful verify leaves a primed entry primed, and
\* stores verified only over unverified or verified; never primed -> verified.
C2_VerifyMonotonic ==
    [][(resp'.op = "verify" /\ resp'.status_code = 200) =>
        LET before == Persisted(files, client).entries[resp'.id].status
            after == Persisted(files', client).entries[resp'.id].status
        IN  /\ before = "primed" => after = "primed"
            /\ after = "verified" => before \in {"unverified", "verified"}
            /\ after \in {"verified", "primed"}]_vars

\* a successful verify has just answered for an entry that is (still) primed
C2_Witness ==
    /\ resp.op = "verify" /\ resp.status_code = 200
    /\ Persisted(files, client).entries[resp.id].status = "primed"

\* C3 - Selection rejection: select(id) of an existing entry that fails the
\* activation predicate answers Precondition (400) and leaves the store as it
\* was; of an entry that satisfies it, succeeds and sets selectedId = id.
C3_SelectionRejection ==
    [][(/\ resp'.op = "select"
        /\ resp'.id # NoId
        /\ resp'.id \in DOMAIN Persisted(files, client).entries) =>
        IF Activatable(client, Persisted(files, client).entries[resp'.id].status)
        THEN /\ resp'.status_code = 204
             /\ Persisted(files', client).selectedId = resp'.id
        ELSE /\ resp'.status_code = 400
             /\ files' = files]_vars

\* a target entry that is verified but not primed has just been refused
C3_Witness ==
    /\ resp.op = "select" /\ resp.status_code = 400
    /\ client = "target"
    /\ resp.id \in DOMAIN Persisted(files, client).entries
    /\ Persisted(files, client).entries[resp.id].status = "verified"

\* C10 - markPrimed(id) answers Precondition (400) and leaves the store as it
\* was when the entry is unverified; from verified or primed it succeeds, the
\* entry is primed afterwards, and no other entry and not selectedId changes.
C10_MarkPrimed ==
    [][(/\ resp'.op = "markPrimed"
        /\ resp'.id \in DOMAIN Persisted(files, client).entries) =>
        LET before == Persisted(files, client)
            after == Persisted(files', client)
        IN  IF before.entries[resp'.id].status = "unverified"
            THEN /\ resp'.status_code = 400
                 /\ files' = files
            ELSE /\ resp'.status_code = 200
                 /\ DOMAIN after.entries = DOMAIN before.entries
                 /\ after.entries[resp'.id].status = "primed"
                 /\ \A i \in DOMAIN before.entries \ {resp'.id} :
                        after.entries[i] = before.entries[i]
                 /\ after.selectedId = before.selectedId]_vars

\* C11 - delete(id) of an absent id answers NotFound (404) and leaves the store
\* as it was; of a present id it removes exactly that entry, sets selectedId
\* to null iff selectedId was id, and changes no other entry and no other
\* selection.
C11_Delete ==
    [][resp'.op = "delete" =>
        LET before == Persisted(files, client)
            after == Persisted(files', client)
        IN  IF resp'.id \notin DOMAIN before.entries
            THEN /\ resp'.status_code = 404
                 /\ files' = files
            ELSE /\ resp'.status_code = 200
                 /\ DOMAIN after.entries = DOMAIN before.entries \ {resp'.id}
                 /\ \A i \in DOMAIN after.entries : after.entries[i] = before.entries[i]
                 /\ after.selectedId =
                        (IF before.selectedId = resp'.id THEN NoId
                         ELSE before.selectedId)]_vars

\* C12 - add stores the entry as unverified under the given id and does not
\* alter the selection: selectedId after add equals selectedId before add,
\* and no entry other than the one stored changes.
C12_AddKeepsSelection ==
    [][(resp'.op = "add" /\ resp'.status_code = 201) =>
        LET before == Persisted(files, client)
            after == Persisted(files', client)
        IN  /\ DOMAIN after.entries = DOMAIN before.entries \cup {resp'.id}
            /\ after.entries[resp'.id].status = "unverified"
            /\ \A i \in DOMAIN before.entries \ {resp'.id} :
                   after.entries[i] = before.entries[i]
            /\ after.selectedId = before.selectedId]_vars

\* C13 - select(null) always succeeds; afterwards selectedId is null and the
\* entries are what they were.
C13_SelectNull ==
    [][(resp'.op = "select" /\ resp'.id = NoId) =>
        /\ resp'.status_code = 204
        /\ Persisted(files', client).selectedId = NoId
        /\ Persisted(files', client).entries = Persisted(files, client).entries]_vars

\* select(null) has just answered on a store that holds an entry which could
\* have been the selection
C13_Witness ==
    /\ resp.op = "select" /\ resp.id = NoId /\ resp.status_code = 204
    /\ Persisted(files, client).selectedId = NoId
    /\ \E i \in DOMAIN Persisted(files, client).entries :
           Activatable(client, Persisted(files, client).entries[i].status)

\* C14 - select(id) of a non-null id that is not in the store answers
\* Precondition (400), as selecting an ineligible entry does, and leaves the
\* store as it was.
C14_SelectMissingIsPrecondition ==
    [][(/\ resp'.op = "select"
        /\ resp'.id # NoId
        /\ resp'.id \notin DOMAIN Persisted(files, client).entries) =>
        /\ resp'.status_code = 400
        /\ files' = files]_vars

\* C15 - verify(id) answers NotFound (404) when the entry is absent and also
\* when its stored credential is not an object; the store is left as it was.
C15_VerifyNotFound ==
    [][(/\ resp'.op = "verify"
        /\ \/ resp'.id \notin DOMAIN Persisted(files, client).entries
           \/ Persisted(files, client).entries[resp'.id].credential # "object") =>
        /\ resp'.status_code = 404
        /\ files' = files]_vars

\* C16 - Store writes are all-or-nothing per call: an operation that answers
\* with an error leaves the persisted store exactly as it was.
C16_ErrorsWriteNothing ==
    [][resp'.status_code >= 400 => files' = files]_vars

\* a verify whose probe failed has just answered, on a store that holds the
\* entry it would have updated
C16_Witness ==
    /\ resp.op = "verify" /\ resp.status_code = 500
    /\ resp.id \in DOMAIN Persisted(files, client).entries
    /\ Persisted(files, client).entries[resp.id].status = "unverified"

\* C17 - Last write wins: a handler resumed after its await writes the result
\* computed from the store it loaded before the await, whatever other requests
\* have written since; their changes are lost.
C17_LastWriteWins ==
    [][(inflight # NoRequest /\ inflight' = NoRequest /\ resp'.status_code = 200) =>
        LET snapshot == inflight.store
            id == inflight.id
            status == IF inflight.op = "markPrimed"
                         \/ snapshot.entries[id].status = "primed"
                      THEN "primed" ELSE "verified"
        IN  /\ Persisted(files', client).selectedId = snapshot.selectedId
            /\ DOMAIN Persisted(files', client).entries = DOMAIN snapshot.entries
            /\ \A i \in DOMAIN snapshot.entries :
                   Persisted(files', client).entries[i] =
                       IF i = id
                       THEN [snapshot.entries[i] EXCEPT !.status = status]
                       ELSE snapshot.entries[i]]_vars

\* an entry deleted while the verify of it awaited the probe is present again
\* after the verify has written
C17_Witness ==
    /\ resp.op = "verify" /\ resp.status_code = 200
    /\ revived
    /\ resp.id \in DOMAIN Persisted(files, client).entries

\* the order of the statuses: unverified < verified < primed
StatusRank(status) ==
    CASE status = "primed" -> 3
      [] status = "verified" -> 2
      [] OTHER -> 1

\* C22 - Status never regresses in a sequential history: whatever request is
\* served, an entry id that stays in the store keeps or raises its status in
\* the order unverified < verified < primed; an add that passes an id already
\* present does not reset a verified or primed entry to unverified.
C22_StatusNeverRegresses ==
    [][\A t \in VALID_CREDENTIAL_TYPES :
          \A id \in DOMAIN Persisted(files, t).entries
                       \cap DOMAIN Persisted(files', t).entries :
              StatusRank(Persisted(files', t).entries[id].status)
                  >= StatusRank(Persisted(files, t).entries[id].status)]_vars

\* C23 - Status monotonicity under interleaving: whatever the interleaving of
\* a verify and a mark-primed of the same entry, a write never takes the
\* persisted status of the entry from primed to verified.
C23_PrimedStaysPrimed ==
    [][\A id \in DOMAIN Persisted(files, client).entries
                    \cap DOMAIN Persisted(files', client).entries :
          Persisted(files, client).entries[id].status = "primed"
              => Persisted(files', client).entries[id].status # "verified"]_vars

(***************************************************************************)
(* Resolver: properties                                                    *)
(***************************************************************************)
\* the environments of the agents of a tree, by position in the agents list
AgentEnv(tree, i) == Get(Get(tree, <<"agents">>).items[i], <<"environment">>)

AgentsWithEnv(tree) ==
    {i \in 1..Len(Get(tree, <<"agents">>).items) :
        /\ IsDict(Get(tree, <<"agents">>).items[i])
        /\ IsDict(AgentEnv(tree, i))}

\* C4 - Resolver idempotence: whenever finalize(t, m, c) succeeds with r,
\* finalize(r, m, c) succeeds too and returns a tree equal to r.
C4_ResolverIdempotent ==
    refinalized # NotCalled =>
        /\ refinalized.status_code = 200
        /\ refinalized.tree = finalized.tree

\* the path of the specification's example, indices attached to the segment
\* before them
GithubTokenPath ==
    <<"agents", "[", "0", "]", ".", "environment", ".", "GITHUB_TOKEN", "=",
      "REPLACE_ME_", "GITHUB_TOKEN">>

\* the request's only problem is agents[0].environment.GITHUB_TOKEN: with a
\* real token there, the same request is finalized
OnlyGithubTokenProblem ==
    /\ Len(Get(request_ur, <<"agents">>).items) = 1
    /\ Get(AgentEnv(request_ur, 1), <<"GITHUB_TOKEN">>)
           = Str(<<"REPLACE_ME_", "GITHUB_TOKEN">>)
    /\ LET agent == Get(request_ur, <<"agents">>).items[1]
           env == Put(AgentEnv(request_ur, 1), <<"GITHUB_TOKEN">>, Genuine)
           fixed == Put(request_ur, <<"agents">>,
                        List(<<Put(agent, <<"environment">>, env)>>))
       IN  finalize_tenant_userrequirements(fixed, request_meta, canonical_file)
               .status_code = 200

\* C5 - Resolver fail-closed with exact paths: every reported item renders the
\* array index as [i] attached to the preceding segment, and the request whose
\* only problem is agents[0].environment.GITHUB_TOKEN = REPLACE_ME_GITHUB_TOKEN
\* fails with placeholders =
\* ["agents[0].environment.GITHUB_TOKEN=REPLACE_ME_GITHUB_TOKEN"].
C5_FailClosedExactPaths ==
    finalized # NotCalled =>
        /\ \A i \in 1..Len(finalized.placeholders) :
               StartsWith(finalized.placeholders[i], <<"agents", "[">>)
        /\ OnlyGithubTokenProblem =>
               /\ finalized.status_code = 400
               /\ finalized.placeholders = <<GithubTokenPath>>

\* the eight keys the database wiring may write
DatabaseKeys ==
    { <<"DATABASE_URL">>, <<"DB_", "HOST">>, <<"DB_", "CONNECTION">>,
      <<"POSTGRES_", "HOST">>, <<"POSTGRES_", "DB">>, <<"POSTGRES_", "USER">>,
      <<"POSTGRES_", "PASSWORD">>, <<"POSTGRES_", "PORT">> }

\* the current value of a key: the top level first, then extra_env
CurrentValue(env, key) ==
    IF Get(env, key) # PyNone THEN Get(env, key) ELSE _get_extra_env(env, key)

\* C6 - No overwrite of genuine values: for each database key the resolver
\* writes only if the current value (top level first, then extra_env) is
\* absent or a placeholder; with a genuine value at the top level neither the
\* top-level value nor extra_env changes for that key.
C6_NoOverwriteOfGenuine ==
    finalized.status_code = 200 =>
        \A i \in AgentsWithEnv(request_ur) : \A key \in DatabaseKeys :
            LET before == AgentEnv(request_ur, i)
                after == AgentEnv(finalized.tree, i)
            IN  (/\ CurrentValue(before, key) # PyNone
                 /\ ~_placeholder_value(CurrentValue(before, key))) =>
                    /\ Get(after, key) = Get(before, key)
                    /\ _get_extra_env(after, key) = _get_extra_env(before, key)

Resolved(env, key) == PyOr(_get_extra_env(env, key), Get(env, key))

NeedsWiring(env) ==
    /\ Truthy(Get(env, <<"connectDatabase">>))
    /\ Resolved(env, <<"DATABASE_URL">>) = PyNone
    /\ Resolved(env, <<"POSTGRES_", "HOST">>) = PyNone

C19_DatabaseWiring ==
    (finalized.status_code = 200 /\ request_meta = FullMeta) =>
        \A i \in AgentsWithEnv(request_ur) :
            NeedsWiring(AgentEnv(request_ur, i)) =>
                LET env == AgentEnv(finalized.tree, i) IN
                /\ Resolved(env, <<"DATABASE_URL">>) =
                       Str(<<"postgresql://", "u", ":", "p", "@/", "db1", "?host=",
                             "/cloudsql/", "proj:region:inst">>)
                /\ Resolved(env, <<"POSTGRES_", "HOST">>) =
                       Str(<<"/cloudsql/", "proj:region:inst">>)
                /\ Get(env, <<"database_instance">>) = Str(<<"proj:region:inst">>)
                /\ Get(env, <<"database_name">>) = Str(<<"db1">>)
                /\ Get(env, <<"db_", "username">>) = Str(<<"u">>)
                /\ Get(env, <<"db_", "password">>) = Str(<<"p">>)

\* a finalized tree whose agent asked for the database and had neither value
C19_Witness ==
    /\ finalized.status_code = 200 /\ request_meta = FullMeta
    /\ \E i \in AgentsWithEnv(request_ur) : NeedsWiring(AgentEnv(request_ur, i))

(***************************************************************************)
(* extra_env: properties                                                   *)
(***************************************************************************)
\* a {key, value} record: an object holding exactly a key and a value
IsKeyValueRecord(entry) ==
    /\ IsDict(entry)
    /\ Len(entry.kv) = 2
    /\ Has(entry, <<"key">>) /\ IsStr(Get(entry, <<"key">>))
    /\ Has(entry, <<"value">>)

RecordsWithKey(items, key) ==
    {i \in 1..Len(items) : Get(items[i], <<"key">>) = Str(key)}

\* C9 - extra_env duality: _set_extra_env keeps a mapping a mapping and a list
\* a list; on a list of {key, value} records a present key is updated in place
\* (length, order and every other record unchanged), an absent key appends
\* exactly one record; a following _get_extra_env returns the written value.
C9_ExtraEnvDuality ==
    ex_written # NotDone =>
        LET before == Get(ex_env, <<"extra_env">>)
            after == Get(ex_written, <<"extra_env">>)
        IN  /\ IsDict(before) => IsDict(after)
            /\ IsList(before) => IsList(after)
            /\ (IsList(before) /\ \A i \in 1..Len(before.items) :
                                      IsKeyValueRecord(before.items[i])) =>
                   IF RecordsWithKey(before.items, ex_key) # {}
                   THEN /\ Len(after.items) = Len(before.items)
                        /\ \A i \in 1..Len(before.items) :
                               IF i \in RecordsWithKey(before.items, ex_key)
                               THEN after.items[i] = Record(ex_key, ex_value)
                               ELSE after.items[i] = before.items[i]
                   ELSE after.items = Append(before.items, Record(ex_key, ex_value))
            /\ (ex_read # NotDone /\ (IsDict(before) \/ IsList(before))) =>
                   ex_read = ex_value

\* a list of records that held the key has been written and read back
C9_Witness ==
    /\ ex_read # NotDone
    /\ IsList(Get(ex_env, <<"extra_env">>))
    /\ Len(Get(ex_env, <<"extra_env">>).items) = 2
    /\ \A i \in 1..2 : IsKeyValueRecord(Get(ex_env, <<"extra_env">>).items[i])
    /\ RecordsWithKey(Get(ex_env, <<"extra_env">>).items, ex_key) = {1}
    /\ Get(Get(ex_env, <<"extra_env">>).items[1], <<"value">>) # ex_value

(***************************************************************************)
(* Sanitizer: properties                                                   *)
(***************************************************************************)
\* every str held in a tree, as a dict value or a list item at any depth
RECURSIVE StringsOf(_)
StringsOf(node) ==
    IF IsStr(node) THEN {node.s}
    ELSE IF IsDict(node)
    THEN UNION {StringsOf(node.kv[i][2]) : i \in 1..Len(node.kv)}
    ELSE IF IsList(node)
    THEN UNION {StringsOf(node.items[i]) : i \in 1..Len(node.items)}
    ELSE {}

\* a key that bears a secret: it names one of the sensitive keywords
SecretBearing(key) ==
    \E i \in 1..Len(SENSITIVE_KEYWORDS) : Contains(Lower(key), SENSITIVE_KEYWORDS[i])

\* the str values a tree holds directly under a secret-bearing key
RECURSIVE SecretsOf(_)
SecretsOf(node) ==
    IF IsDict(node)
    THEN UNION {(IF SecretBearing(node.kv[i][1]) /\ IsStr(node.kv[i][2])
                 THEN {node.kv[i][2].s} ELSE {})
                \cup SecretsOf(node.kv[i][2]) : i \in 1..Len(node.kv)}
    ELSE IF IsList(node)
    THEN UNION {SecretsOf(node.items[i]) : i \in 1..Len(node.items)}
    ELSE {}

CoordinatesOf(node) ==
    LET found == _collect_known_coordinates(node) IN
    found.project_ids \cup found.regions \cup found.db_instances

\* C7: no string of the sanitizer's output contains a coordinate value
\* discovered in the raw tree, nor a string value the raw tree held under a
\* secret-bearing key.
C7_SanitizerNonLeakage ==
    first_run # NotDone =>
        \A out \in StringsOf(first_run) :
            \A real \in CoordinatesOf(raw_payload) \cup SecretsOf(raw_payload) :
                ~Contains(out, real)

\* C8: two runs of the sanitizer on the same raw tree give the same output,
\* whatever order each run meets the members of the coordinate sets in.
C8_SanitizerDeterminism ==
    (first_run # NotDone /\ second_run # NotDone) => first_run = second_run

(***************************************************************************)
(* Template cache: properties                                              *)
(***************************************************************************)
\* C20 - Template cache: once a call has succeeded, every later call returns
\* the cached template without reading the file, whatever the file holds by
\* then; a call that fails caches nothing, and a call made with nothing
\* cached reads the file.
C20_TemplateCache ==
    [][template_file' = template_file =>
        IF _template_cache # PyNone
        THEN /\ template_resp'.outcome = "ok"
             /\ template_resp'.value = _template_cache
             /\ ~template_resp'.read_file
             /\ _template_cache' = _template_cache
        ELSE /\ template_resp'.read_file
             /\ IF template_resp'.outcome = "ok"
                THEN _template_cache' = template_resp'.value /\ _template_cache' # PyNone
                ELSE _template_cache' = PyNone]_vars

\* a call has been served from the cache while the file is gone
C20_Witness ==
    /\ template_resp # NoCall
    /\ template_resp.outcome = "ok"
    /\ ~template_resp.read_file
    /\ template_file = MissingFile

(***************************************************************************)
(* Resolver: postconditions of finalize                                    *)
(***************************************************************************)
\* a scalar of the tree is owned by the key it is the value of; the value of
\* a {key, value} record of a list-shaped extra_env is owned by the record's
\* key.  The tree holds a critical placeholder when a scalar owned by a
\* critical key is a placeholder, or a string holds one of the two git tokens.
RECURSIVE HoldsCriticalPlaceholder(_, _)
HoldsCriticalPlaceholder(node, owner) ==
    IF IsDict(node)
    THEN \/ /\ IsKeyValueRecord(node)
            /\ IsStr(Get(node, <<"key">>))
            /\ HoldsCriticalPlaceholder(Get(node, <<"value">>), Get(node, <<"key">>).s)
         \/ \E i \in 1..Len(node.kv) :
                HoldsCriticalPlaceholder(node.kv[i][2], node.kv[i][1])
    ELSE IF IsList(node)
    THEN \E i \in 1..Len(node.items) : HoldsCriticalPlaceholder(node.items[i], <<>>)
    ELSE \/ IsCriticalKey(Upper(owner)) /\ _placeholder_value(node)
         \/ IsStr(node) /\ ContainsBadGit(node.s)

\* C25 - Success postcondition of finalize: a returned tree holds no scalar
\* owned by a critical key (DATABASE_URL, DEFAULT_MAX_TOKENS, REPO_URL,
\* GITHUB_TOKEN, DB_*, POSTGRES_*, in any case) whose value is a placeholder
\* (null, blank, PLACEHOLDER, REPLACE_ME_...), and no string holding
\* REPLACE_ME_GITHUB_TOKEN or REPLACE_ME_REPO_URL, at the top level of an
\* environment, in a mapping-shaped extra_env and in list-shaped records.
C25_NoCriticalPlaceholderReturned ==
    finalized.status_code = 200 => ~HoldsCriticalPlaceholder(finalized.tree, <<>>)

\* d without the key
Without(d, key) == Dict(SelectSeq(d.kv, LAMBDA item : item[1] # key))

\* the tenant's current DEFAULT_MAX_TOKENS as the resolver reads it
CurrentMaxTokens(env) ==
    PyOr(_get_extra_env(env, <<"DEFAULT_MAX_TOKENS">>), Get(env, <<"DEFAULT_MAX_TOKENS">>))

\* the value the resolver is to give: the canonical agent's, else "16384"
ExpectedMaxTokens(agent) ==
    LET canonical_env == _canonical_agent_env_by_name(canonical_file, Get(agent, <<"name">>))
        canonical == IF Truthy(canonical_env) THEN CurrentMaxTokens(canonical_env)
                                              ELSE PyNone
    IN  IF Truthy(canonical) THEN canonical ELSE Str(<<"16384">>)

\* the request with every placeholder DEFAULT_MAX_TOKENS at the top level of
\* an environment taken out: when this request is finalized, an unresolved
\* DEFAULT_MAX_TOKENS is the only issue the request can have
WithoutPlaceholderMaxTokens(tree) ==
    LET agents == Get(tree, <<"agents">>).items IN
    Put(tree, <<"agents">>,
        List([i \in 1..Len(agents) |->
                IF i \in AgentsWithEnv(tree)
                   /\ _placeholder_value(Get(AgentEnv(tree, i), <<"DEFAULT_MAX_TOKENS">>))
                THEN Put(agents[i], <<"environment">>,
                         Without(AgentEnv(tree, i), <<"DEFAULT_MAX_TOKENS">>))
                ELSE agents[i]]))

NoOtherIssue ==
    finalize_tenant_userrequirements(
        WithoutPlaceholderMaxTokens(request_ur), request_meta, canonical_file)
            .status_code = 200

\* C26 - DEFAULT_MAX_TOKENS resolution: for every agent with an environment,
\* an absent or placeholder current DEFAULT_MAX_TOKENS (top level or
\* extra_env) is resolved to the canonical agent's value, else "16384", no
\* placeholder DEFAULT_MAX_TOKENS remains and finalize succeeds when there is
\* no other issue; a genuine current value is left unchanged.
C26_MaxTokensResolved ==
    finalized # NotCalled =>
        /\ NoOtherIssue => finalized.status_code = 200
        /\ finalized.status_code = 200 =>
               \A i \in AgentsWithEnv(request_ur) :
                   LET before == AgentEnv(request_ur, i)
                       after == AgentEnv(finalized.tree, i)
                   IN  IF _placeholder_value(CurrentMaxTokens(before))
                       THEN /\ CurrentMaxTokens(after) =
                                   ExpectedMaxTokens(Get(request_ur, <<"agents">>).items[i])
                            /\ Has(after, <<"DEFAULT_MAX_TOKENS">>) =>
                                   ~_placeholder_value(Get(after, <<"DEFAULT_MAX_TOKENS">>))
                       ELSE /\ Get(after, <<"DEFAULT_MAX_TOKENS">>)
                                   = Get(before, <<"DEFAULT_MAX_TOKENS">>)
                            /\ _get_extra_env(after, <<"DEFAULT_MAX_TOKENS">>)
                                   = _get_extra_env(before, <<"DEFAULT_MAX_TOKENS">>)

\* what the database wiring needs and does not find
LacksDatabaseCoordinates ==
    \/ ~Truthy(Get(request_meta, <<"database_instance">>))
    \/ ~Truthy(Get(request_meta, <<"database_name">>))

LacksDatabaseLogin(agent) ==
    LET canonical_env == _canonical_agent_env_by_name(canonical_file, Get(agent, <<"name">>))
    IN  \E key \in {<<"db_", "username">>, <<"db_", "password">>} :
            /\ ~Truthy(Get(request_meta, key))
            /\ ~Truthy(canonical_env) \/ ~Truthy(Get(canonical_env, key))

WantsDatabase(tree, i) ==
    i \in AgentsWithEnv(tree) /\ Truthy(Get(AgentEnv(tree, i), <<"connectDatabase">>))

WiringKeys ==
    DatabaseKeys \cup {<<"database_instance">>, <<"database_name">>,
                       <<"db_", "username">>, <<"db_", "password">>}

\* C27 - connectDatabase preconditions: with an agent whose environment has
\* connectDatabase truthy, finalize fails with 400 and returns no tree when
\* the tenant metadata lacks database_instance or database_name, or when
\* db_username or db_password is absent from both the tenant metadata and the
\* canonical agent of the same name; agents without an environment object or
\* with connectDatabase falsy get none of the database keys written.
C27_ConnectDatabasePreconditions ==
    finalized # NotCalled =>
        /\ (\E i \in 1..Len(Get(request_ur, <<"agents">>).items) :
                /\ WantsDatabase(request_ur, i)
                /\ \/ LacksDatabaseCoordinates
                   \/ LacksDatabaseLogin(Get(request_ur, <<"agents">>).items[i]))
               => finalized.status_code = 400 /\ finalized.tree = PyNone
        /\ finalized.status_code = 200 =>
               \A i \in 1..Len(Get(request_ur, <<"agents">>).items) :
                   IF i \notin AgentsWithEnv(request_ur)
                   THEN Get(finalized.tree, <<"agents">>).items[i]
                            = Get(request_ur, <<"agents">>).items[i]
                   ELSE ~WantsDatabase(request_ur, i) =>
                            \A key \in WiringKeys :
                                /\ Get(AgentEnv(finalized.tree, i), key)
                                       = Get(AgentEnv(request_ur, i), key)
                                /\ _get_extra_env(AgentEnv(finalized.tree, i), key)
                                       = _get_extra_env(AgentEnv(request_ur, i), key)

\* a request refused for its metadata, and one finalized whose agent did not
\* ask for the database
C27_Witness ==
    \/ /\ finalized.status_code = 400
       /\ finalized.placeholders = <<>>
       /\ LacksDatabaseCoordinates
       /\ \E i \in AgentsWithEnv(request_ur) : WantsDatabase(request_ur, i)
    \/ /\ finalized.status_code = 200
       /\ \E i \in AgentsWithEnv(request_ur) : ~WantsDatabase(request_ur, i)

(***************************************************************************)
(* Sanitizer: strict keys and project numbers                              *)
(***************************************************************************)
\* the literal each strict key is to be replaced by, key in lower case
StrictLiteral(lower) ==
    CASE lower \in project_id_keys -> <<"{{PROJECT_ID}}">>
      [] lower = region_key -> <<"{{REGION}}">>
      [] lower = database_instance_key -> <<"{{DB_INSTANCE}}">>
      [] lower = <<"d", "a", "t", "a", "b", "a", "s", "e", "_", "n", "a", "m", "e">> -> <<"{{DB_NAME}}">>
      [] lower = <<"d", "b", "_", "u", "s", "e", "r", "n", "a", "m", "e">> -> <<"{{DB_USERNAME}}">>
      [] lower = <<"d", "b", "_", "p", "a", "s", "s", "w", "o", "r", "d">> ->
             <<"REPLACE_ME_">> \o <<"D", "B", "_", "P", "A", "S", "S", "W", "O", "R", "D">>
      [] lower = <<"g", "i", "t", "h", "u", "b", "_", "t", "o", "k", "e", "n">> ->
             <<"REPLACE_ME_">> \o <<"G", "I", "T", "H", "U", "B", "_", "T", "O", "K", "E", "N">>
      [] OTHER -> <<>>

\* every str value of the raw tree owned by a strict key is, at the same
\* place of the output, the literal of that key
RECURSIVE StrictKeysMapped(_, _)
StrictKeysMapped(raw, out) ==
    IF IsDict(raw)
    THEN \A i \in 1..Len(raw.kv) :
            /\ (IsStr(raw.kv[i][2]) /\ StrictLiteral(Lower(raw.kv[i][1])) # <<>>)
                   => out.kv[i][2] = Str(StrictLiteral(Lower(raw.kv[i][1])))
            /\ StrictKeysMapped(raw.kv[i][2], out.kv[i][2])
    ELSE IF IsList(raw)
    THEN \A i \in 1..Len(raw.items) : StrictKeysMapped(raw.items[i], out.items[i])
    ELSE TRUE

\* C28 - Sanitizer strict-key mapping: every string value whose owning key
\* (in any case) is project_id, tenant_id or google_cloud_project is replaced
\* by {{PROJECT_ID}}, region by {{REGION}}, database_instance by
\* {{DB_INSTANCE}}, database_name by {{DB_NAME}}, db_username by
\* {{DB_USERNAME}}, db_password by REPLACE_ME_DB_PASSWORD, github_token by
\* REPLACE_ME_GITHUB_TOKEN, before the URL and sensitive keyword rules.
C28_StrictKeyMapping == first_run # NotDone => StrictKeysMapped(raw_payload, first_run)

\* s holds a run of MinProjectNumberRun or more digits
HoldsProjectNumber(s) ==
    \E i \in 1..Len(s) :
        \A j \in i..(i + MinProjectNumberRun - 1) : j <= Len(s) /\ s[j] \in DigitChars

\* at every place where the raw tree holds a str owned by a key that calls
\* for no placeholder, the output holds no run of digits that long, and holds
\* {{PROJECT_NUMBER}} where the raw str was such a run and nothing else
RECURSIVE ProjectNumbersCollapsed(_, _, _)
ProjectNumbersCollapsed(raw, out, key) ==
    IF IsDict(raw)
    THEN \A i \in 1..Len(raw.kv) :
            ProjectNumbersCollapsed(raw.kv[i][2], out.kv[i][2], Str(raw.kv[i][1]))
    ELSE IF IsList(raw)
    THEN \A i \in 1..Len(raw.items) :
            ProjectNumbersCollapsed(raw.items[i], out.items[i], PyNone)
    ELSE (IsStr(raw) /\ ~Truthy(_placeholder_for_key(key))) =>
            /\ ~HoldsProjectNumber(out.s)
            /\ (raw.s # <<>> /\ \A j \in 1..Len(raw.s) : raw.s[j] \in DigitChars
                 /\ Len(raw.s) >= MinProjectNumberRun
                 /\ CoordinatesOf(raw_payload) = {})
                    => out.s = <<"{{PROJECT_NUMBER}}">>

\* C29 - Project-number collapse: for a string value whose owning key matches
\* no strict, URL or sensitive rule, every run of 11 or more consecutive
\* digits is replaced by {{PROJECT_NUMBER}} in the sanitized output, and the
\* substituted value is the one kept.
C29_ProjectNumberCollapse ==
    first_run # NotDone => ProjectNumbersCollapsed(raw_payload, first_run, PyNone)

(***************************************************************************)
(* Loading store files: properties                                         *)
(***************************************************************************)
\* the file holds a JSON object; its entries when they are a mapping
StoredRecord == stored_text # MissingFile /\ IsDict(stored_text)

StoredEntriesGiven == StoredRecord /\ Has(stored_text, <<"entries">>)

StoredEntries ==
    IF ~StoredRecord THEN Dict(<<>>)
    ELSE IF ~Has(stored_text, <<"entries">>) THEN Dict(<<>>)
    ELSE Get(stored_text, <<"entries">>)

\* the status an entry value is to be loaded with: its stored status when
\* that is one of the three, unverified otherwise
StatusToLoad(value) ==
    IF IsDict(value) /\ Get(value, <<"status">>) \in EntryStatuses
    THEN Get(value, <<"status">>).s[1]
    ELSE "unverified"

LoadedSelected == Get(loaded.store, <<"selectedId">>)
LoadedEntries == Get(loaded.store, <<"entries">>)

\* selectedId is null unless the stored selectedId names a stored entry whose
\* normalized status satisfies the activation predicate of the class
SelectionHealed ==
    loaded # NotDone =>
        (LoadedSelected # PyNone =>
            /\ StoredRecord
            /\ IsDict(StoredEntries)
            /\ LoadedSelected = Get(stored_text, <<"selectedId">>)
            /\ IsStr(LoadedSelected)
            /\ Has(StoredEntries, LoadedSelected.s)
            /\ Activatable(loaded.type_name,
                           StatusToLoad(Get(StoredEntries, LoadedSelected.s))))

\* every stored entry is loaded with its stored status when that is one of
\* the three statuses, and as unverified otherwise
StatusesHealed ==
    (loaded # NotDone /\ IsDict(StoredEntries)) =>
        \A i \in 1..Len(StoredEntries.kv) :
            LET id == StoredEntries.kv[i][1] IN
            /\ Has(LoadedEntries, id)
            /\ Get(Get(LoadedEntries, id), <<"status">>)
                   = Str(<<StatusToLoad(StoredEntries.kv[i][2])>>)

\* normalizing the loaded store again gives the loaded store
NormalizedIsFixpoint == reloaded # NotDone => reloaded = loaded.store

\* C24 - Load normalization: the loaded store has selectedId = null unless the
\* stored selectedId names a stored entry whose normalized status satisfies the
\* class's activation predicate; an entry whose stored status is missing or
\* not one of the three statuses is loaded as unverified; normalizing an
\* already normalized store changes nothing.
C24_LoadNormalization == SelectionHealed /\ StatusesHealed /\ NormalizedIsFixpoint

\* the entry _normalize_entry makes of a value that is no object
IsHealedEntry(entry) ==
    /\ Get(entry, <<"status">>) = Str(<<"unverified">>)
    /\ Get(entry, <<"credential">>) = PyNone

\* content that is not valid JSON, not a JSON object, or an object whose
\* entries field is not a mapping
Malformed ==
    /\ stored_text # MissingFile
    /\ \/ stored_text = InvalidJson
       \/ ~IsDict(stored_text)
       \/ StoredEntriesGiven /\ ~IsDict(StoredEntries)

MalformedLoadsEmpty == (loaded # NotDone /\ Malformed) => loaded.store = _empty_store_json

NonObjectEntriesHealed ==
    \A i \in 1..Len(StoredEntries.kv) :
        ~IsDict(StoredEntries.kv[i][2]) =>
            /\ Has(LoadedEntries, StoredEntries.kv[i][1])
            /\ IsHealedEntry(Get(LoadedEntries, StoredEntries.kv[i][1]))

\* the record holds a value the normalization cannot hash: a truthy
\* selectedId, or the truthy status of an entry, that is a list or an object
Unhashable ==
    /\ StoredRecord
    /\ IsDict(StoredEntries)
    /\ \/ LET selected == Get(stored_text, <<"selectedId">>)
          IN  Truthy(selected) /\ ~Hashable(selected)
       \/ \E i \in 1..Len(StoredEntries.kv) :
              LET value == StoredEntries.kv[i][2] IN
              /\ IsDict(value)
              /\ Truthy(Get(value, <<"status">>))
              /\ ~Hashable(Get(value, <<"status">>))

PostedSteps == Get(boot_posted, <<"steps">>).items
PostedEnv ==
    LET env == Get(PostedSteps[2], <<"env">>).items
    IN  {env[i].s : i \in 1..Len(env)}
PostedCommand ==
    LET args == Get(PostedSteps[2], <<"args">>).items
    IN  args[1].s \o <<" ">> \o args[2].s

\* the region the request names: its text, us-central1 when it is missing
\* or blank
NamedRegion ==
    LET given == Get(boot_body, <<"region">>)
    IN  IF IsStr(given) /\ Strip(given.s) # <<>> THEN given.s ELSE <<"us-central1">>

BuildBodyShape(region) ==
    /\ Len(PostedSteps) = 2
    /\ (<<"PROJECT_ID", "=">> \o source_project_id(boot_source).s) \in PostedEnv
    /\ (<<"REGION", "=">> \o region) \in PostedEnv
    /\ Contains(PostedCommand, <<"make", " ", "bootstrap-provider">>)
    /\ ~Contains(PostedCommand, <<"PROJECT_ID", "=", "$", "$", "PROJECT_ID">>)
    /\ ~Contains(PostedCommand, <<"REGION", "=", "$", "$", "REGION">>)

\* C21 (as stated): the posted build body has two steps, the second step's
\* env holds PROJECT_ID=P and REGION=R for the request's region R exactly as
\* sent (us-central1 when missing or blank), and its command runs make
\* bootstrap-provider without the $$ substitutions.
C21_RegionAsSent == boot_posted # PyNone => BuildBodyShape(NamedRegion)

\* C21 (amended): the same, with REGION= followed by the request's region
\* stripped of its surrounding whitespace.
C21_BuildBody == boot_posted # PyNone => BuildBodyShape(Strip(NamedRegion))

C21_Witness ==
    /\ boot_posted # PyNone
    /\ Get(boot_body, <<"region">>) = Str(<<" ", "e", "u", " ">>)
    /\ <<"REGION", "=", "e", "u">> \in PostedEnv

=============================================================================
